---- MODULE Spec2Model ----
(***************************************************************************)
(* A model of the TGPC pharmacist-registry tooling: the daily automated    *)
(* updater (validator, safety gate, secure backup), the orchestration      *)
(* manager's refresh, and the adaptive rate limiter with circuit breaker.  *)
(*                                                                         *)
(* Each component has its own specification (SpecUpdater, SpecValidator,   *)
(* SpecGate, SpecManager, SpecLimiter); the variables of the components a  *)
(* specification does not exercise stay at their initial value.            *)
(***************************************************************************)
EXTENDS Integers, Sequences, FiniteSets, TLC

VARIABLES
    \* ---- daily updater (tgpc/automation/daily_updater.py) ----
    rx_file,        \* data/rx.json as the engine's FileManager sees it
    up_backups,     \* contents of data/backups/rx_backup_*.json
    up_pc,          \* "idle" | "returned": position of the caller
    up_before,      \* rx_file as it was when the last call started
    up_env,         \* what the world did during the last call
    up_trace,       \* the locals of the last call (existing_count, report, ...)
    up_result,      \* the UpdateResult the last call returned
    \* ---- DataIntegrityValidator.validate_records as a function ----
    v_in, v_out, v_pc,
    \* ---- DailyUpdater._perform_safety_checks as a function ----
    g_in, g_out, g_pc,
    \* ---- orchestration manager (tgpc/manager.py) ----
    m_file,         \* data/rx.json as the manager's FileManager sees it
    m_pc,           \* "idle" | "returned"
    m_before,       \* m_file as it was when the last run started
    m_fresh,        \* what the scraper returned during the last run
    m_out,          \* what the last run did and reported
    \* ---- adaptive rate limiter (tgpc/extractors/rate_limiter.py) ----
    rl,             \* the RateLimiter object of one extractor
    rl_clock,       \* seconds on the wall clock since the breaker last opened
    rl_pc,          \* "idle" | "admitted": position inside _make_request
    rl_wait,        \* the last wait_if_needed call: state before, outcome, sleep
    \* ---- simple rate limiter of the scraper (tgpc/scraper.py) ----
    sl,             \* the RateLimiter object of one Scraper
    sl_pc,          \* "off" | "idle" | "waited": position inside Scraper._request
    sl_recorded,    \* number of record_result calls so far
    \* ---- one call of PharmacistExtractor._make_request with its retry decorator ----
    rq_pc,          \* "idle" | "waiting" | "sending" | "done"
    rq_outcomes,    \* what each HTTP attempt of the call came back with
    rq_waits,       \* wait_if_needed calls of the call that were admitted
    rq_records,     \* record_request calls of the call
    rq_exit,        \* "none" | "returned" | the class of the exception the call ended with
    \* ---- AutomationScheduler._run_update_with_retries (tgpc/automation/scheduler.py) ----
    sc_pc,          \* "idle" | "running" | "returned"
    sc_attempt,     \* the value of the loop variable attempt
    sc_log,         \* per attempt of the call: how it ended, status saved, minutes slept
    sc_status,      \* data/automation_status.json
    sc_last_result, \* self.last_result
    sc_return,      \* what the call returned
    \* ---- AutomationScheduler.start_scheduler / stop_scheduler / _scheduler_loop ----
    th_is_running,  \* self.is_running
    th_scheduler_thread,\* self.scheduler_thread: the thread of the last start, NoThread before any
    th_pc,          \* per thread: unborn, test (the while condition), poll, job, sleep, dead
    th_job,         \* per thread: the job it is executing inside run_pending, NoJob otherwise
    th_jobs,        \* the jobs registered with the schedule module
    th_next_run,    \* per job: the day of its next run
    th_day,         \* number of times the clock has passed the update time
    th_caller,      \* the thread calling start/stop: idle, or joining inside stop_scheduler
    th_runs,        \* history: the update runs started by the polling threads
    \* ---- DetailedExtractor.extract_batch ----
    dx_basic,       \* rx.json as the extractor reads it: the registration numbers in file order
    dx_files,       \* the detailed directory: per registration number its <number>.json
    dx_status_file, \* metadata/extraction-status.json
    dx_pc,          \* idle, loop, returned
    dx_args,        \* start_index and batch_size of the call
    dx_i,           \* iterations of the batch loop done
    dx_status,      \* the status dictionary of the call
    dx_results,     \* batch_results
    dx_before,      \* history: the detailed directory when the call began
    dx_fetched,     \* history: registration numbers fetched from the site by this call
    dx_calls,       \* calls completed
    \* ---- TGPCEngine.sync_with_website ----
    sy_file,        \* the dataset file (pharmacists.json)
    sy_pc,          \* idle, returned
    sy_before,      \* history: the dataset file when the call began
    sy_env,         \* history: what the site served and the fault of the call
    sy_out,         \* what the call returned or raised
    \* ---- TGPCEngine.extract_basic_records ----
    en_table,       \* the listing table of the page: its rows, each the texts of its td cells
    en_fault,       \* whether the request for the page fails
    en_pc,          \* idle, returned
    en_out,         \* what extract_basic_records returned or raised
    \* ---- total-count extraction ----
    ct_table,       \* the table of the page: its rows, each the texts of its td cells
    ct_pc,          \* idle, returned
    ct_out,         \* which implementation was called and what it returned or raised
    \* ---- Reader.fetch_basic_records / Scraper.extract_basic_records ----
    pb_table,       \* the listing table of the page: its rows, each the texts of its td cells
    pb_pc,          \* idle, returned
    pb_out,         \* which implementation was called and the records it returned
    \* ---- PharmacistRecord construction ----
    pr_input,       \* the registration number text given to the constructor
    pr_pc,          \* idle, constructed, again
    pr_out,         \* the registration number of the record, or the exception
    pr_again,       \* the same for a record built from the first one's registration number
    \* ---- secure backup manager ----
    bk_source,      \* the dataset file given to create_backup
    bk_files,       \* backup files by timestamp
    bk_digests,     \* digest files by timestamp
    bk_made,        \* what create_backup left for each timestamp
    bk_pc,          \* idle, created, raised, verified
    bk_arg,         \* the timestamp of the backup of the current call
    bk_out,         \* the answer of verify_backup
    \* ---- search endpoint ----
    sr_mirror,      \* the rows of the mirror
    sr_q,           \* the q parameter of the request
    sr_limit,       \* the limit parameter of the request
    sr_pc,          \* idle, answered
    sr_out,         \* the answer of the handler
    \* ---- standalone updater ----
    su_git,         \* the repository: root present, dataset version in head, index, work tree, remote
    su_pc,          \* idle, exited
    su_out,         \* the steps and exit status of the last run
    \* ---- bulk detail fetcher ----
    fd_output,      \* the file at the output path
    fd_temp,        \* the file at the temporary path
    fd_results,     \* len(results)
    fd_left,        \* registrations not yet processed
    fd_pc,          \* start, loop, save, opened, written, removed, renamed, done, dead
    fd_final,       \* the finally block has been entered
    \* ---- embedded mirror ----
    db_rows,        \* the rows of table pharmacists
    db_call,        \* the last call on the mirror and the rows it found
    \* ---- HTTP API under concurrent requests ----
    ap_workers,     \* how the server runs concurrent requests
    ap_kind,        \* what each request asks for
    ap_pc,          \* each request: start, connected, queried, done, failed
    ap_conn,        \* db.conn: the request whose connection it is, 0 for None
    ap_open,        \* each request's connection: none, open, closed
    ap_ran,         \* queries run: request and connection
    ap_closed,      \* connections closed: request and connection
    \* ---- rxsync merge ----
    mg_existing,    \* the stored list
    mg_fetched,     \* the fetched list
    mg_pc,          \* idle, merged, again
    mg_first,       \* the result of the first merge
    mg_second       \* the result of merging the fetched list again

vars == <<rx_file, up_backups, up_pc, up_before, up_env, up_trace, up_result,
          v_in, v_out, v_pc, g_in, g_out, g_pc,
          m_file, m_pc, m_before, m_fresh, m_out,
          rl, rl_clock, rl_pc, rl_wait,
          sl, sl_pc, sl_recorded,
          rq_pc, rq_outcomes, rq_waits, rq_records, rq_exit,
          sc_pc, sc_attempt, sc_log, sc_status, sc_last_result, sc_return,
          th_is_running, th_scheduler_thread, th_pc, th_job, th_jobs, th_next_run, th_day, th_caller, th_runs,
          dx_basic, dx_files, dx_status_file, dx_pc, dx_args, dx_i, dx_status, dx_results, dx_before, dx_fetched, dx_calls,
          sy_file, sy_pc, sy_before, sy_env, sy_out,
          en_table, en_fault, en_pc, en_out,
          ct_table, ct_pc, ct_out,
          pb_table, pb_pc, pb_out,
          pr_input, pr_pc, pr_out, pr_again,
          bk_source, bk_files, bk_digests, bk_made, bk_pc, bk_arg, bk_out,
          sr_mirror, sr_q, sr_limit, sr_pc, sr_out,
          su_git, su_pc, su_out,
          fd_output, fd_temp, fd_results, fd_left, fd_pc, fd_final,
          db_rows, db_call,
          ap_workers, ap_kind, ap_pc, ap_conn, ap_open, ap_ran, ap_closed,
          mg_existing, mg_fetched, mg_pc, mg_first, mg_second>>

updaterVars   == <<rx_file, up_backups, up_pc, up_before, up_env, up_trace, up_result>>
validatorVars == <<v_in, v_out, v_pc>>
gateVars      == <<g_in, g_out, g_pc>>
managerVars   == <<m_file, m_pc, m_before, m_fresh, m_out>>
limiterVars   == <<rl, rl_clock, rl_pc, rl_wait>>
simpleVars == <<sl, sl_pc, sl_recorded>>
requestVars == <<rq_pc, rq_outcomes, rq_waits, rq_records, rq_exit>>
schedulerVars == <<sc_pc, sc_attempt, sc_log, sc_status, sc_last_result, sc_return>>
threadVars == <<th_is_running, th_scheduler_thread, th_pc, th_job, th_jobs, th_next_run, th_day, th_caller, th_runs>>
detailVars == <<dx_basic, dx_files, dx_status_file, dx_pc, dx_args, dx_i, dx_status, dx_results, dx_before, dx_fetched, dx_calls>>
syncVars == <<sy_file, sy_pc, sy_before, sy_env, sy_out>>
engineVars == <<en_table, en_fault, en_pc, en_out>>
countVars == <<ct_table, ct_pc, ct_out>>
parseVars == <<pb_table, pb_pc, pb_out>>
recordVars == <<pr_input, pr_pc, pr_out, pr_again>>
backupVars == <<bk_source, bk_files, bk_digests, bk_made, bk_pc, bk_arg, bk_out>>
searchVars == <<sr_mirror, sr_q, sr_limit, sr_pc, sr_out>>
standaloneVars == <<su_git, su_pc, su_out>>
fetchVars == <<fd_output, fd_temp, fd_results, fd_left, fd_pc, fd_final>>
mirrorVars == <<db_rows, db_call>>
apiVars == <<ap_workers, ap_kind, ap_pc, ap_conn, ap_open, ap_ran, ap_closed>>
mergeVars == <<mg_existing, mg_fetched, mg_pc, mg_first, mg_second>>

\* Every component outside `touched` keeps its variables.
Frame(touched) ==
    /\ IF "updater" \in touched THEN TRUE ELSE UNCHANGED updaterVars
    /\ IF "validator" \in touched THEN TRUE ELSE UNCHANGED validatorVars
    /\ IF "gate" \in touched THEN TRUE ELSE UNCHANGED gateVars
    /\ IF "manager" \in touched THEN TRUE ELSE UNCHANGED managerVars
    /\ IF "limiter" \in touched THEN TRUE ELSE UNCHANGED limiterVars
    /\ IF "simple" \in touched THEN TRUE ELSE UNCHANGED simpleVars
    /\ IF "request" \in touched THEN TRUE ELSE UNCHANGED requestVars
    /\ IF "scheduler" \in touched THEN TRUE ELSE UNCHANGED schedulerVars
    /\ IF "threads" \in touched THEN TRUE ELSE UNCHANGED threadVars
    /\ IF "detail" \in touched THEN TRUE ELSE UNCHANGED detailVars
    /\ IF "sync" \in touched THEN TRUE ELSE UNCHANGED syncVars
    /\ IF "engine" \in touched THEN TRUE ELSE UNCHANGED engineVars
    /\ IF "count" \in touched THEN TRUE ELSE UNCHANGED countVars
    /\ IF "parse" \in touched THEN TRUE ELSE UNCHANGED parseVars
    /\ IF "record" \in touched THEN TRUE ELSE UNCHANGED recordVars
    /\ IF "backup" \in touched THEN TRUE ELSE UNCHANGED backupVars
    /\ IF "search" \in touched THEN TRUE ELSE UNCHANGED searchVars
    /\ IF "standalone" \in touched THEN TRUE ELSE UNCHANGED standaloneVars
    /\ IF "fetch" \in touched THEN TRUE ELSE UNCHANGED fetchVars
    /\ IF "mirror" \in touched THEN TRUE ELSE UNCHANGED mirrorVars
    /\ IF "api" \in touched THEN TRUE ELSE UNCHANGED apiVars
    /\ IF "merge" \in touched THEN TRUE ELSE UNCHANGED mergeVars

(***************************************************************************)
(* Generic helpers.                                                        *)
(***************************************************************************)
RECURSIVE SeqsUpTo(_, _)
SeqsUpTo(S, n) ==
    IF n = 0 THEN { <<>> }
    ELSE LET shorter == SeqsUpTo(S, n - 1)
         IN  shorter \cup { Append(s, x) : s \in { t \in shorter : Len(t) = n - 1 }, x \in S }

Abs(x) == IF x < 0 THEN -x ELSE x

Range(s) == { s[i] : i \in 1..Len(s) }

(***************************************************************************)
(* Records of the engine pipeline (tgpc/models/pharmacist.py).             *)
(*                                                                         *)
(* A dataset is a list of blocks.  A block stands for the consecutive      *)
(* records whose registration numbers are the members of `regs`, in        *)
(* ascending order, and which agree on every other field; a one-element    *)
(* block is a single PharmacistRecord.  Blocks let a list hold the 80,000  *)
(* records the updater's thresholds are about.  Registration numbers are   *)
(* already normalised by __post_init__ when a record exists, so they are   *)
(* plain keys here; name and category are the cleaned values.              *)
(***************************************************************************)
valid_categories == {"BPharm", "DPharm", "PharmD", "MPharm", "QP", "QC"}

Block(regs, name, category) == [regs |-> regs, name |-> name, category |-> category]

RECURSIVE Count(_)
Count(records) ==
    IF records = <<>> THEN 0
    ELSE Cardinality(Head(records).regs) + Count(Tail(records))

RECURSIVE RegNumbers(_)
RegNumbers(records) ==
    IF records = <<>> THEN {}
    ELSE Head(records).regs \cup RegNumbers(Tail(records))

\* PharmacistRecord.validate: the list of validation errors of one record.
\* The registration-number checks cannot fail on a constructed record.
Validate(record) ==
    (IF record.name = "" THEN {"Name is required"} ELSE {})
    \cup (IF record.category = "" THEN {"Category is required"} ELSE {})
    \cup (IF record.category # "" /\ record.category \notin valid_categories
          THEN {"Invalid category"} ELSE {})

(***************************************************************************)
(* DataIntegrityValidator.validate_records.                                *)
(***************************************************************************)
Ratio(n, d) == [num |-> n, den |-> d]

\* a < b for ratios with positive denominators
RatioLess(a, b) == a.num * b.den < b.num * a.den

ValidateStart ==
    [ seen |-> {}, clean |-> <<>>, invalid_records |-> 0,
      duplicates_found |-> 0, integrity_issues |-> {} ]

\* Mutant: the duplicate check runs before the record is validated, so an
\* invalid record occupies its registration number.
ValidateStepSeenFirst(acc, record) ==
    LET repeated == record.regs \cap acc.seen
        first    == record.regs \ acc.seen
    IN  IF repeated # {} /\ first = {}
        THEN [acc EXCEPT !.duplicates_found = @ + Cardinality(repeated)]
        ELSE IF Validate(record) # {}
        THEN [acc EXCEPT !.invalid_records = @ + Cardinality(record.regs),
                         !.seen = @ \cup record.regs,
                         !.integrity_issues = @ \cup Validate(record)]
        ELSE [acc EXCEPT !.duplicates_found = @ + Cardinality(repeated),
                         !.seen = @ \cup first,
                         !.clean = IF first = {} THEN @
                                   ELSE Append(@, [record EXCEPT !.regs = first])]

\* One iteration of the loop over `records`, for the record (block) `record`.
ValidateStep(acc, record) ==
    IF Validate(record) # {}
    THEN [acc EXCEPT !.invalid_records = @ + Cardinality(record.regs),
                     !.integrity_issues = @ \cup Validate(record)]
    ELSE LET repeated == record.regs \cap acc.seen
             first    == IF repeated = {} THEN record.regs ELSE record.regs \ acc.seen
         IN  [acc EXCEPT !.duplicates_found = @ + Cardinality(repeated),
                         !.seen = @ \cup first,
                         !.clean = IF first = {} THEN @
                                   ELSE Append(@, [record EXCEPT !.regs = first])]

RECURSIVE ValidateLoop(_, _, _)
ValidateLoop(records, i, acc) ==
    IF i > Len(records) THEN acc
    ELSE ValidateLoop(records, i + 1, ValidateStep(acc, records[i]))

IntegrityScore(clean_records, total_input_records) ==
    IF total_input_records > 0
    THEN Ratio(clean_records, total_input_records)
    ELSE Ratio(0, 1)

\* Returns the pair (clean_records, validation_report) as a record.
ValidateRecords(records) ==
    LET acc == ValidateLoop(records, 1, ValidateStart)
        total == Count(records)
    IN  [ clean_records |-> acc.clean,
          report |-> [ total_input_records |-> total,
                       duplicates_found    |-> acc.duplicates_found,
                       invalid_records     |-> acc.invalid_records,
                       clean_records       |-> Count(acc.clean),
                       integrity_issues    |-> acc.integrity_issues,
                       duplicates_removed  |-> acc.duplicates_found,
                       integrity_score     |-> IntegrityScore(Count(acc.clean), total) ] ]

(***************************************************************************)
(* DailyUpdater: thresholds and _perform_safety_checks.                    *)
(***************************************************************************)
max_record_change_percent == 5
min_integrity_percent == 95
min_records_threshold == 80000
max_invalid_percent == 1

min_integrity_score == Ratio(min_integrity_percent, 100)

CountTooLow(new_count) == new_count < min_records_threshold

IntegrityTooLow(validation_report) ==
    RatioLess(validation_report.integrity_score, min_integrity_score)

\* Mutant: the change bound taken as inclusive.
ChangeTooLargeInclusive(existing_count, new_count) ==
    /\ existing_count > 0
    /\ Abs(new_count - existing_count) * 100 >= max_record_change_percent * existing_count

ChangeTooLarge(existing_count, new_count) ==
    /\ existing_count > 0
    /\ Abs(new_count - existing_count) * 100 > max_record_change_percent * existing_count

HighInvalidRate(validation_report) ==
    /\ validation_report.invalid_records > 0
    /\ validation_report.invalid_records * 100
           > max_invalid_percent * validation_report.total_input_records

\* The result dict as the function starts with it.
SafetyStart == [ passed |-> TRUE, critical |-> FALSE, errors |-> <<>>, warnings |-> <<>> ]

\* An entry of an errors list: the message and the detail formatted into it.
Message(text, detail) == <<text, detail>>

Fail(result, message) ==
    [result EXCEPT !.passed = FALSE, !.critical = TRUE,
                   !.errors = Append(@, Message(message, ""))]

Warn(result, message) == [result EXCEPT !.warnings = Append(@, Message(message, ""))]

\* Check 1: minimum records threshold.
Check1(result, new_count) ==
    IF CountTooLow(new_count) THEN Fail(result, "Record count too low") ELSE result

\* Check 2: data integrity score.
Check2(result, validation_report) ==
    IF IntegrityTooLow(validation_report) THEN Fail(result, "Data integrity too low") ELSE result

\* Check 3: record count change percentage.
Check3(result, existing_count, new_count) ==
    IF ChangeTooLarge(existing_count, new_count)
    THEN Fail(result, "Record count change too large") ELSE result

\* Check 4: duplicate validation.
Check4(result, validation_report) ==
    IF validation_report.duplicates_found > 0
    THEN Warn(result, "Found and removed duplicates") ELSE result

\* Check 5: invalid records.
Check5(result, validation_report) ==
    IF HighInvalidRate(validation_report)
    THEN Warn(result, "High invalid record rate") ELSE result

PerformSafetyChecks(existing_count, new_count, validation_report) ==
    Check5(Check4(Check3(Check2(Check1(SafetyStart, new_count),
                                validation_report),
                         existing_count, new_count),
                  validation_report),
           validation_report)

(***************************************************************************)
(* Files of the engine pipeline (tgpc/storage/file_manager.py,             *)
(* tgpc/core/engine.py).  A file is absent, or holds a list of records     *)
(* written with a set of fields.                                           *)
(***************************************************************************)
BasicFields == {"serial_number", "registration_number", "name", "father_name", "category"}

AllFields ==
    BasicFields \cup {"registration_date", "validity_date", "status", "gender",
                      "photo_data", "education", "work_experience",
                      "created_at", "updated_at", "data_source"}

AbsentFile == [exists |-> FALSE, fields |-> {}, records |-> <<>>]

StoredFile(fields, records) == [exists |-> TRUE, fields |-> fields, records |-> records]

Returned(value) == [raised |-> FALSE, error |-> "", value |-> value]
Raised(error)   == [raised |-> TRUE, error |-> error, value |-> <<>>]

\* FileManager.load_records, as read by the environment `fault`.
FileManagerLoadRecords(file, fault) ==
    IF ~file.exists THEN Raised("FileNotFoundError")
    ELSE IF fault THEN Raised("read error")
    ELSE Returned(file.records)

\* FileManager.save_records: the file after the call, or the exception.
FileManagerSaveRecords(file, records, basic_only) ==
    IF records = <<>> THEN [raised |-> TRUE, error |-> "No records to save", file |-> file]
    ELSE [ raised |-> FALSE, error |-> "",
           file |-> StoredFile(IF basic_only THEN BasicFields ELSE AllFields, records) ]

\* The parameters TGPCEngine.save_records declares besides self.
EngineSaveRecordsParams == {"records", "filename"}

\* TGPCEngine.save_records called with the keyword arguments `keywords`.
EngineSaveRecords(file, records, keywords) ==
    IF ~(keywords \subseteq EngineSaveRecordsParams)
    THEN [ raised |-> TRUE,
           error |-> "save_records() got an unexpected keyword argument",
           file |-> file ]
    ELSE FileManagerSaveRecords(file, records, FALSE)

\* The keyword arguments of the call at daily_updater.py line 311.
UpdaterSaveKeywords == {"basic_only"}

(***************************************************************************)
(* The steps of DailyUpdater.perform_daily_update.  `env` says what the    *)
(* world does during the call: the listing the site serves and the one     *)
(* fault, if any, that input or output hits.                               *)
(***************************************************************************)
LoadExistingData(file, env) ==
    LET loaded == FileManagerLoadRecords(file, env.fault = "load")
    IN  IF loaded.raised THEN <<>> ELSE loaded.value

\* SecureBackupManager.create_backup behind _create_secure_backup.
CreateSecureBackup(file, backups, env) ==
    IF file.exists
    THEN IF env.fault = "backup"
         THEN [raised |-> TRUE, error |-> "backup copy failed", path |-> "", backups |-> backups]
         ELSE [raised |-> FALSE, error |-> "", path |-> "rx_backup", backups |-> backups \cup {file}]
    ELSE [raised |-> FALSE, error |-> "", path |-> "", backups |-> backups]

\* The list that the call engine.extract_basic_records() hands to its caller,
\* taken as an input of the caller: `env.fresh`, or the exception of the
\* extraction.  How the engine builds its list from the rows of the listing
\* is ExtractBasicRecords below.
EngineExtractBasicRecords(env) ==
    IF env.fault = "extract" THEN Raised("NetworkException") ELSE Returned(env.fresh)

CalculateChanges(existing_records, new_records) ==
    [ new_records     |-> Cardinality(RegNumbers(new_records) \ RegNumbers(existing_records)),
      removed_records |-> Cardinality(RegNumbers(existing_records) \ RegNumbers(new_records)) ]

\* What the re-load of rx.json returns after the save.
Reloaded(file, env) ==
    IF env.fault = "reload" THEN Raised("read error")
    ELSE IF env.fault = "reload_short" /\ file.records # <<>>
         THEN Returned(SubSeq(file.records, 1, Len(file.records) - 1))
    ELSE FileManagerLoadRecords(file, FALSE)

VerifySavedData(expected_records, file, env) ==
    LET saved == Reloaded(file, env)
    IN  IF saved.raised
        THEN [success |-> FALSE, errors |-> <<Message("Verification failed", saved.error)>>]
        ELSE IF Count(saved.value) # Count(expected_records)
        THEN [success |-> FALSE, errors |-> <<Message("Saved record count mismatch", "")>>]
        ELSE IF RegNumbers(expected_records) # RegNumbers(saved.value)
        THEN [success |-> FALSE,
              errors |-> <<Message("Saved registration numbers don't match expected", "")>>]
        ELSE [success |-> TRUE, errors |-> <<>>]

\* SecureBackupManager.cleanup_old_backups: the backups older than 30 days go.
CleanupOldBackups(backups, env) == IF env.expired THEN {} ELSE backups

UpdateResult(success, total, new, removed, found, removed_dups, score, backup, errors, warnings) ==
    [ success |-> success, total_records |-> total, new_records |-> new,
      removed_records |-> removed, duplicates_found |-> found,
      duplicates_removed |-> removed_dups, data_integrity_score |-> score,
      backup_created |-> backup, errors |-> errors, warnings |-> warnings ]

\* Mutant: the except branch forgets to append the exception's message.
FailedResultSilent(errors, warnings, e) ==
    UpdateResult(FALSE, 0, 0, 0, 0, 0, Ratio(0, 1), "", errors, warnings)

\* The except branch: the failed, zero-count result.
FailedResult(errors, warnings, e) ==
    UpdateResult(FALSE, 0, 0, 0, 0, 0, Ratio(0, 1), "",
                 Append(errors, Message("Update failed", e)), warnings)

\* Mutant: the abort reports the fresh count instead of the existing one.
CriticalAbortResultFresh(existing_count, validation_report, backup_path, errors, warnings) ==
    UpdateResult(FALSE, validation_report.clean_records, 0, 0,
                 validation_report.duplicates_found, validation_report.duplicates_removed,
                 validation_report.integrity_score, backup_path, errors, warnings)

\* The result returned when a critical safety check fails.
CriticalAbortResult(existing_count, validation_report, backup_path, errors, warnings) ==
    UpdateResult(FALSE, existing_count, 0, 0,
                 validation_report.duplicates_found, validation_report.duplicates_removed,
                 validation_report.integrity_score, backup_path, errors, warnings)

\* The result returned at the end of the try block.
SuccessResult(clean_records, changes, validation_report, backup_path, errors, warnings) ==
    UpdateResult(TRUE, Count(clean_records), changes.new_records, changes.removed_records,
                 validation_report.duplicates_found, validation_report.duplicates_removed,
                 validation_report.integrity_score, backup_path, errors, warnings)

NoReport ==
    [ total_input_records |-> 0, duplicates_found |-> 0, invalid_records |-> 0,
      clean_records |-> 0, integrity_issues |-> {}, duplicates_removed |-> 0,
      integrity_score |-> Ratio(0, 1) ]

\* The locals a call leaves behind, for the properties below.
Trace(stage, existing_count, clean_records, report, safety) ==
    [ stage |-> stage, existing_count |-> existing_count,
      clean_records |-> clean_records, report |-> report, safety |-> safety ]

Outcome(result, file, backups, trace) ==
    [result |-> result, file |-> file, backups |-> backups, trace |-> trace]

\* errors/warnings after "if not safety_check_result['passed']".
ErrorsAfterSafety(safety) == IF ~safety.passed THEN safety.errors ELSE <<>>
WarningsAfterSafety(safety) == IF ~safety.passed THEN safety.warnings ELSE <<>>

PerformDailyUpdate(file, backups, env) ==
    LET existing_records  == LoadExistingData(file, env)
        existing_count    == Count(existing_records)
        backup            == CreateSecureBackup(file, backups, env)
        fresh             == EngineExtractBasicRecords(env)
        validated         == ValidateRecords(fresh.value)
        clean_records     == validated.clean_records
        validation_report == validated.report
        safety   == PerformSafetyChecks(existing_count, Count(clean_records), validation_report)
        errors   == ErrorsAfterSafety(safety)
        warnings == WarningsAfterSafety(safety)
        changes  == CalculateChanges(existing_records, clean_records)
        saved    == EngineSaveRecords(file, clean_records, UpdaterSaveKeywords)
        verification == VerifySavedData(clean_records, saved.file, env)
        errors8  == IF ~verification.success THEN errors \o verification.errors ELSE errors
        pruned   == CleanupOldBackups(backup.backups, env)
    IN  IF backup.raised
        THEN Outcome(FailedResult(<<>>, <<>>, backup.error), file, backup.backups,
                     Trace("backup_raised", existing_count, <<>>, NoReport, SafetyStart))
        ELSE IF fresh.raised
        THEN Outcome(FailedResult(<<>>, <<>>, fresh.error), file, backup.backups,
                     Trace("extract_raised", existing_count, <<>>, NoReport, SafetyStart))
        ELSE IF ~safety.passed /\ safety.critical
        THEN Outcome(CriticalAbortResult(existing_count, validation_report, backup.path,
                                         errors, warnings),
                     file, backup.backups,
                     Trace("critical_abort", existing_count, clean_records,
                           validation_report, safety))
        ELSE IF saved.raised
        THEN Outcome(FailedResult(errors, warnings, saved.error), saved.file, backup.backups,
                     Trace("save_raised", existing_count, clean_records,
                           validation_report, safety))
        ELSE Outcome(SuccessResult(clean_records, changes, validation_report, backup.path,
                                   errors8, warnings),
                     saved.file, pruned,
                     Trace("completed", existing_count, clean_records,
                           validation_report, safety))

(***************************************************************************)
(* The daily updater as a state machine: a caller invokes                  *)
(* perform_daily_update, gets the result, and may call again.              *)
(***************************************************************************)
Valid(regs)   == Block(regs, "N", "BPharm")
Invalid(regs) == Block(regs, "N", "Unknown")
Nameless(regs) == Block(regs, "", "BPharm")

\* The listings the site serves during a call.
Listings ==
    { <<>>,
      <<Valid(1..79999)>>,
      <<Valid(1..80000)>>,
      <<Valid(2..80001)>>,
      <<Valid(1..84000)>>,
      <<Valid(1..84001)>>,
      <<Valid(1..95000), Invalid(95001..100000)>>,
      <<Valid(1..94999), Invalid(95000..100000)>>,
      <<Valid(1..80000), Valid({1, 2})>>,
      <<Valid(1..80000), Nameless(80001..80809)>> }

Faults == {"none", "load", "backup", "extract", "reload", "reload_short"}

Envs == [fresh : Listings, fault : Faults, expired : BOOLEAN]

\* The datasets rx.json may hold when the updater is first run.
StoredChoices ==
    { AbsentFile,
      StoredFile(BasicFields, <<Valid(1..80000)>>),
      StoredFile(BasicFields, <<Valid(1..100000)>>) }

NoEnv    == [fresh |-> <<>>, fault |-> "none", expired |-> FALSE]
NoTrace  == Trace("none", 0, <<>>, NoReport, SafetyStart)
NoResult == UpdateResult(FALSE, 0, 0, 0, 0, 0, Ratio(0, 1), "", <<>>, <<>>)

UpdaterIdle ==
    /\ up_backups = {}
    /\ up_pc = "idle"
    /\ up_before = AbsentFile
    /\ up_env = NoEnv
    /\ up_trace = NoTrace
    /\ up_result = NoResult

UpdaterInit == rx_file \in StoredChoices /\ UpdaterIdle

\* One call of perform_daily_update, start to return.
DailyUpdate ==
    /\ up_pc = "idle"
    /\ \E env \in Envs :
          LET out == PerformDailyUpdate(rx_file, up_backups, env)
          IN  /\ rx_file' = out.file
              /\ up_backups' = out.backups
              /\ up_trace' = out.trace
              /\ up_result' = out.result
              /\ up_env' = env
    /\ up_before' = rx_file
    /\ up_pc' = "returned"
    /\ Frame({"updater"})

\* The caller has read the result; the updater can be run again.
UpdateConsumed ==
    /\ up_pc = "returned"
    /\ up_pc' = "idle"
    /\ up_before' = AbsentFile
    /\ up_env' = NoEnv
    /\ up_trace' = NoTrace
    /\ up_result' = NoResult
    /\ UNCHANGED <<rx_file, up_backups>>
    /\ Frame({"updater"})

(***************************************************************************)
(* validate_records applied to short lists of single records.              *)
(***************************************************************************)
MaxRecords == 3
MaxRegs == 2

SingleRecords ==
    { Block({r}, n, c) : r \in 1..MaxRegs, n \in {"", "N"}, c \in {"BPharm", "Unknown", ""} }

NoValidation == ValidateRecords(<<>>)

ValidatorIdle == v_in = <<>> /\ v_out = NoValidation /\ v_pc = "idle"

ValidatorInit ==
    /\ v_in \in SeqsUpTo(SingleRecords, MaxRecords)
    /\ v_out = NoValidation
    /\ v_pc = "ready"

CallValidateRecords ==
    /\ v_pc = "ready"
    /\ v_out' = ValidateRecords(v_in)
    /\ v_pc' = "done"
    /\ UNCHANGED <<v_in>>
    /\ Frame({"validator"})

(***************************************************************************)
(* _perform_safety_checks applied to counts around its thresholds.         *)
(***************************************************************************)
GateExisting == {0, 80000, 100000}
GateNew      == {0, 79999, 80000, 84000, 84001, 76000, 75999, 95000, 94999, 105000, 105001}
GateInvalid  == {0, 1, 809, 5000, 5001}
GateDups     == {0, 1, 5000}

\* The validation report of a run with these counts.
ReportOf(clean, invalid, dups) ==
    [ total_input_records |-> clean + invalid + dups,
      duplicates_found    |-> dups,
      invalid_records     |-> invalid,
      clean_records       |-> clean,
      integrity_issues    |-> {},
      duplicates_removed  |-> dups,
      integrity_score     |-> IntegrityScore(clean, clean + invalid + dups) ]

NoGateInput == [existing_count |-> 0, new_count |-> 0, invalid |-> 0, dups |-> 0]

GateIdle == g_in = NoGateInput /\ g_out = SafetyStart /\ g_pc = "idle"

GateInit ==
    /\ g_in \in [existing_count : GateExisting, new_count : GateNew,
                 invalid : GateInvalid, dups : GateDups]
    /\ g_out = SafetyStart
    /\ g_pc = "ready"

CallSafetyChecks ==
    /\ g_pc = "ready"
    /\ g_out' = PerformSafetyChecks(g_in.existing_count, g_in.new_count,
                                    ReportOf(g_in.new_count, g_in.invalid, g_in.dups))
    /\ g_pc' = "done"
    /\ UNCHANGED <<g_in>>
    /\ Frame({"gate"})

(***************************************************************************)
(* The orchestration manager (tgpc/manager.py) with the plain record type  *)
(* of tgpc/scraper.py.  A record is its registration number, its serial    *)
(* number (NoSerial for None) and its name; the other text fields are      *)
(* carried like the name.                                                  *)
(***************************************************************************)
NoSerial == -1

PlainRecord(reg, serial, name) ==
    [registration_number |-> reg, serial_number |-> serial, name |-> name]

Keys(records) == { records[i].registration_number : i \in 1..Len(records) }

\* Mutant: a key that is already present keeps its first value.
DictPutFirstWins(d, r) ==
    IF \E i \in 1..Len(d) : d[i].registration_number = r.registration_number
    THEN d
    ELSE Append(d, r)

\* {r.registration_number: r for r in records}: a dict keeps the position of
\* a key's first insertion and the value of its last.
DictPut(d, r) ==
    IF \E i \in 1..Len(d) : d[i].registration_number = r.registration_number
    THEN [i \in 1..Len(d) |->
             IF d[i].registration_number = r.registration_number THEN r ELSE d[i]]
    ELSE Append(d, r)

RECURSIVE DictOf(_)
DictOf(records) ==
    IF records = <<>> THEN <<>>
    ELSE DictPut(DictOf(SubSeq(records, 1, Len(records) - 1)), records[Len(records)])

\* d[key] for a key of the dict.
DictGet(d, key) == d[CHOOSE i \in 1..Len(d) : d[i].registration_number = key]

\* key=lambda r: r.serial_number or 0
SerialKey(r) == IF r.serial_number = NoSerial THEN 0 ELSE r.serial_number

\* sorted() is stable: a record goes after the records whose key is not larger.
InsertSorted(s, r) ==
    LET n == Cardinality({ i \in 1..Len(s) : SerialKey(s[i]) <= SerialKey(r) })
    IN  SubSeq(s, 1, n) \o <<r>> \o SubSeq(s, n + 1, Len(s))

RECURSIVE SortedBySerial(_)
SortedBySerial(records) ==
    IF records = <<>> THEN <<>>
    ELSE InsertSorted(SortedBySerial(SubSeq(records, 1, Len(records) - 1)),
                      records[Len(records)])

AbsentData == [exists |-> FALSE, data |-> <<>>]

\* FileManager.save / FileManager.load of tgpc/manager.py.
ManagerSave(records) == [exists |-> TRUE, data |-> records]
ManagerLoad(file) == IF ~file.exists THEN <<>> ELSE file.data

\* BackupManager.create: the copy made of rx.json, if there is one to copy.
ManagerBackup(file) == IF ~file.exists THEN AbsentData ELSE file

\* Mutant: the floor taken as exclusive (a count of exactly 90% aborts).
SafetyAbortInclusive(fresh_count, existing_count) ==
    existing_count # 0 /\ fresh_count * 10 <= existing_count * 9

\* The safety check: len(fresh) < len(existing) * 0.9 on a non-empty existing list.
SafetyAbort(fresh_count, existing_count) ==
    existing_count # 0 /\ fresh_count * 10 < existing_count * 9

ManagerOutcome(status, file, backup, total, new, removed, modified, duplicates) ==
    [ status |-> status, file |-> file, backup |-> backup, total_count |-> total,
      new_count |-> new, removed_count |-> removed, modified_count |-> modified,
      duplicates |-> duplicates ]

\* Manager.run_daily_update on the stored file, with the scraper returning
\* `fresh_records` or raising.
RunDailyUpdate(file, scraper_raises, fresh_records) ==
    LET backup           == ManagerBackup(file)
        existing_records == ManagerLoad(file)
        sorted_records   == SortedBySerial(DictOf(fresh_records))
        existing_map     == DictOf(existing_records)
        current_map      == DictOf(sorted_records)
        existing_ids     == Keys(existing_map)
        current_ids      == Keys(current_map)
        new_ids          == current_ids \ existing_ids
        removed_ids      == existing_ids \ current_ids
        common_ids       == current_ids \cap existing_ids
        modified         == { rid \in common_ids :
                                DictGet(existing_map, rid) # DictGet(current_map, rid) }
    IN  IF scraper_raises
        THEN ManagerOutcome("raised", file, backup, 0, 0, 0, 0, 0)
        ELSE IF fresh_records = <<>>
        THEN ManagerOutcome("no_records", file, backup, 0, 0, 0, 0, 0)
        ELSE IF SafetyAbort(Len(fresh_records), Len(existing_records))
        THEN ManagerOutcome("safety_abort", file, backup, 0, 0, 0, 0, 0)
        ELSE ManagerOutcome("updated", ManagerSave(sorted_records), backup,
                            Len(sorted_records), Cardinality(new_ids),
                            Cardinality(removed_ids), Cardinality(modified),
                            Len(fresh_records) - Len(sorted_records))

MaxFresh == 3
MaxKeys == 2

PlainRecords ==
    { PlainRecord(reg, serial, "N") : reg \in 1..MaxKeys, serial \in {NoSerial, 1, 2} }

\* A listing of n rows with serials and registration numbers 1..n.
Registry(n) == [i \in 1..n |-> PlainRecord(i, i, "N")]

\* What the scraper can return: any short list, or a long registry listing.
FreshChoices == SeqsUpTo(PlainRecords, MaxFresh) \cup { Registry(8), Registry(9) }

NoOutcome == ManagerOutcome("none", AbsentData, AbsentData, 0, 0, 0, 0, 0)

ManagerIdle ==
    /\ m_pc = "idle"
    /\ m_before = AbsentData
    /\ m_fresh = <<>>
    /\ m_out = NoOutcome

ManagerInit == m_file \in {AbsentData, ManagerSave(Registry(10))} /\ ManagerIdle

\* One run of run_daily_update, start to return.
ManagerRun ==
    /\ m_pc = "idle"
    /\ \E raises \in BOOLEAN, fresh \in FreshChoices :
          LET out == RunDailyUpdate(m_file, raises, fresh)
          IN  /\ m_file' = out.file
              /\ m_out' = out
              /\ m_fresh' = IF raises THEN <<>> ELSE fresh
    /\ m_before' = m_file
    /\ m_pc' = "returned"
    /\ Frame({"manager"})

ManagerRunConsumed ==
    /\ m_pc = "returned"
    /\ m_pc' = "idle"
    /\ m_before' = AbsentData
    /\ m_fresh' = <<>>
    /\ m_out' = NoOutcome
    /\ UNCHANGED <<m_file>>
    /\ Frame({"manager"})

(***************************************************************************)
(* The adaptive rate limiter (tgpc/extractors/rate_limiter.py) as the      *)
(* extractor's _make_request drives it.                                    *)
(*                                                                         *)
(* Delays and response times are floats in the code; here they are exact   *)
(* fractions in lowest terms.  The limiter reads the wall clock for one    *)
(* decision only, the age of circuit_breaker_open_time, so rl_clock is the *)
(* clock read relative to the instant the breaker last opened, in seconds, *)
(* and it stands at 0 while the limiter holds no such instant.             *)
(* stats.last_request_time is written and never read; it is left out.      *)
(***************************************************************************)
RECURSIVE GCD(_, _)
GCD(a, b) == IF b = 0 THEN a ELSE GCD(b, a % b)

Frac(n, d) == LET g == GCD(n, d) IN [num |-> n \div g, den |-> d \div g]

Whole(n) == Frac(n, 1)

Times(a, b) == Frac(a.num * b.num, a.den * b.den)

Plus(a, b) ==
    LET g == GCD(a.den, b.den)
    IN  Frac(a.num * (b.den \div g) + b.num * (a.den \div g), a.den * (b.den \div g))

Less(a, b) ==
    LET g == GCD(a.den, b.den)
    IN  a.num * (b.den \div g) < b.num * (a.den \div g)

FloatMax(a, b) == IF Less(a, b) THEN b ELSE a

FloatMin(a, b) == IF Less(b, a) THEN b ELSE a

Ceil(a) == (a.num + a.den - 1) \div a.den

\* Config defaults (tgpc/config/settings.py).
min_delay == Whole(4)
max_delay == Whole(10)
long_break_after == 100
long_break_duration == 60
adaptive_pause_minutes == 10

\* Adaptive parameters fixed in RateLimiter.__init__.
success_delay_reduction == Frac(9, 10)
failure_delay_increase == Frac(3, 2)
max_consecutive_failures == 5
circuit_breaker_timeout == 300

NoTime == -1     \* circuit_breaker_open_time is None

RequestStats ==
    [ total_requests        |-> 0,
      successful_requests   |-> 0,
      failed_requests       |-> 0,
      blocked_requests      |-> 0,
      average_response_time |-> Whole(0),
      consecutive_failures  |-> 0 ]

Config(break_after) ==
    [ min_delay              |-> min_delay,
      max_delay              |-> max_delay,
      long_break_after       |-> break_after,
      long_break_duration    |-> long_break_duration,
      adaptive_pause_minutes |-> adaptive_pause_minutes ]

\* RateLimiter.__init__
NewRateLimiter(config) ==
    [ min_delay                 |-> config.min_delay,
      max_delay                 |-> config.max_delay,
      long_break_after          |-> config.long_break_after,
      long_break_duration       |-> config.long_break_duration,
      adaptive_pause_minutes    |-> config.adaptive_pause_minutes,
      stats                     |-> RequestStats,
      current_delay             |-> config.min_delay,
      requests_since_break      |-> 0,
      circuit_breaker_open      |-> FALSE,
      circuit_breaker_open_time |-> NoTime ]

\* What the clock reads once `seconds` more have passed.
ClockAfter(l, now, seconds) ==
    IF l.circuit_breaker_open_time = NoTime THEN 0 ELSE now + seconds

\* _check_circuit_breaker with >= replaced by >.
CheckCircuitBreakerStrict(l, now) ==
    IF ~l.circuit_breaker_open \/ l.circuit_breaker_open_time = NoTime THEN l
    ELSE IF now - l.circuit_breaker_open_time > circuit_breaker_timeout
         THEN [l EXCEPT !.circuit_breaker_open = FALSE,
                        !.circuit_breaker_open_time = NoTime,
                        !.stats.consecutive_failures = 0,
                        !.current_delay = l.min_delay]
         ELSE l

\* RateLimiter._check_circuit_breaker
CheckCircuitBreaker(l, now) ==
    IF ~l.circuit_breaker_open \/ l.circuit_breaker_open_time = NoTime THEN l
    ELSE IF now - l.circuit_breaker_open_time >= circuit_breaker_timeout
         THEN [l EXCEPT !.circuit_breaker_open = FALSE,
                        !.circuit_breaker_open_time = NoTime,
                        !.stats.consecutive_failures = 0,
                        !.current_delay = l.min_delay]
         ELSE l

\* RateLimiter._calculate_delay
CalculateDelay(l) ==
    LET base == l.current_delay
        failures == l.stats.consecutive_failures
        afterFailures ==
            IF failures > 0 THEN Times(base, Frac(2 + failures, 2)) ELSE base
        average == l.stats.average_response_time
        afterAverage ==
            IF Less(Whole(5), average) THEN Times(afterFailures, Frac(12, 10))
            ELSE IF Less(average, Whole(1)) THEN Times(afterFailures, Frac(9, 10))
            ELSE afterFailures
    IN  FloatMax(l.min_delay, FloatMin(afterAverage, l.max_delay))

\* _take_long_break without the reset of the counter
TakeLongBreakKeepsCount(l) == [l EXCEPT !.current_delay = l.min_delay]

\* RateLimiter._take_long_break (the sleep is accounted by the caller)
TakeLongBreak(l) ==
    [l EXCEPT !.requests_since_break = 0, !.current_delay = l.min_delay]

\* RateLimiter.wait_if_needed; jitter is the draw of random.uniform(0.8, 1.2).
WaitIfNeeded(l, now, jitter) ==
    LET checked == IF l.circuit_breaker_open THEN CheckCircuitBreaker(l, now) ELSE l
    IN  IF checked.circuit_breaker_open
        THEN [raised |-> TRUE, rl |-> checked, slept |-> Whole(0)]
        ELSE LET delay == CalculateDelay(checked)
                 final_delay == Times(delay, jitter)
                 waited == IF Less(Whole(0), final_delay) THEN final_delay ELSE Whole(0)
                 counted == [checked EXCEPT !.requests_since_break = @ + 1]
             IN  IF counted.requests_since_break >= counted.long_break_after
                 THEN [raised |-> FALSE, rl |-> TakeLongBreak(counted),
                       slept |-> Plus(waited, Whole(counted.long_break_duration))]
                 ELSE [raised |-> FALSE, rl |-> counted, slept |-> waited]

\* RateLimiter._on_success
OnSuccess(l) ==
    LET reduced == [l EXCEPT !.current_delay =
                        FloatMax(l.min_delay, Times(l.current_delay, success_delay_reduction))]
    IN  IF reduced.circuit_breaker_open
        THEN [reduced EXCEPT !.circuit_breaker_open = FALSE,
                             !.circuit_breaker_open_time = NoTime]
        ELSE reduced

\* _on_failure that leaves the opening time of an open breaker alone
OnFailureKeepsOpenTime(l, now) ==
    LET increased == [l EXCEPT !.current_delay =
                        FloatMin(l.max_delay, Times(l.current_delay, failure_delay_increase))]
    IN  IF increased.stats.consecutive_failures >= max_consecutive_failures
           /\ ~increased.circuit_breaker_open
        THEN [increased EXCEPT !.circuit_breaker_open = TRUE,
                               !.circuit_breaker_open_time = now]
        ELSE increased

\* RateLimiter._on_failure
OnFailure(l, now) ==
    LET increased == [l EXCEPT !.current_delay =
                        FloatMin(l.max_delay, Times(l.current_delay, failure_delay_increase))]
    IN  IF increased.stats.consecutive_failures >= max_consecutive_failures
        THEN [increased EXCEPT !.circuit_breaker_open = TRUE,
                               !.circuit_breaker_open_time = now]
        ELSE increased

\* _on_blocked with the cap left out
OnBlockedUncapped(l) ==
    [l EXCEPT !.current_delay = Times(l.current_delay, Whole(2))]

\* RateLimiter._on_blocked (its sleep is pause_duration, accounted by the caller)
OnBlocked(l) ==
    [l EXCEPT !.current_delay = FloatMin(l.max_delay, Times(l.current_delay, Whole(2)))]

Response(response_time, status_code, success) ==
    [response_time |-> response_time, status_code |-> status_code, success |-> success]

\* RateLimiter.record_request
RecordRequest(l, now, response) ==
    LET counted == [l EXCEPT !.stats.total_requests = @ + 1]
        averaged ==
            [counted EXCEPT !.stats.average_response_time =
                IF counted.stats.total_requests = 1 THEN response.response_time
                ELSE Plus(Times(Frac(1, 10), response.response_time), Times(Frac(9, 10), @))]
        judged ==
            IF response.success
            THEN OnSuccess([averaged EXCEPT !.stats.successful_requests = @ + 1,
                                            !.stats.consecutive_failures = 0])
            ELSE OnFailure([averaged EXCEPT !.stats.failed_requests = @ + 1,
                                            !.stats.consecutive_failures = @ + 1], now)
        blocked == response.status_code \in {403, 429}
    IN  IF blocked
        THEN [rl |-> OnBlocked([judged EXCEPT !.stats.blocked_requests = @ + 1]),
              slept |-> judged.adaptive_pause_minutes * 60]
        ELSE [rl |-> judged, slept |-> 0]

(***************************************************************************)
(* The limiter under _make_request: wait_if_needed before the try block,   *)
(* then one HTTP request and exactly one record_request for it.  A raising *)
(* wait_if_needed ends _make_request (the retry decorator retries network  *)
(* errors only), so no request is sent and nothing is recorded.            *)
(***************************************************************************)
MaxRequests == 6     \* requests one extractor sends
MaxClock == 450      \* the clock is followed up to this reading

\* Draws of the jitter: both ends of the range.
Jitters == { Frac(4, 5), Frac(6, 5) }

\* What a request can come back with: fast and slow answers, an HTTP error,
\* a blocking status, and a timeout or connection error (recorded as 0, 0).
Responses ==
    { Response(Frac(1, 2), 200, TRUE), Response(Whole(6), 200, TRUE),
      Response(Frac(1, 2), 500, FALSE), Response(Frac(1, 2), 429, FALSE),
      Response(Whole(0), 0, FALSE) }

\* Time the caller lets pass between two uses of the limiter.
Pauses == { circuit_breaker_timeout \div 2, circuit_breaker_timeout \div 2 - 1 }

ShortBreakAfter == 2     \* a long break every other request

Configs == { Config(long_break_after), Config(MaxRequests), Config(ShortBreakAfter) }

WaitRecord(outcome, slept, before, at) ==
    [outcome |-> outcome, slept |-> slept, before |-> before, at |-> at]

NoWait == WaitRecord("none", Whole(0), NewRateLimiter(Config(long_break_after)), 0)

LimiterIdle ==
    /\ rl = NewRateLimiter(Config(long_break_after))
    /\ rl_clock = 0
    /\ rl_pc = "idle"
    /\ rl_wait = NoWait

LimiterInit ==
    /\ rl \in { NewRateLimiter(config) : config \in Configs }
    /\ rl_clock = 0
    /\ rl_pc = "idle"
    /\ rl_wait = NoWait

\* _make_request up to the return of wait_if_needed.
MakeRequestWait ==
    /\ rl_pc = "idle"
    /\ rl.stats.total_requests < MaxRequests
    /\ \E jitter \in Jitters :
          LET w == WaitIfNeeded(rl, rl_clock, jitter)
          IN  /\ rl' = w.rl
              /\ rl_pc' = IF w.raised THEN "idle" ELSE "admitted"
              /\ rl_clock' = ClockAfter(w.rl, rl_clock, Ceil(w.slept))
              /\ rl_wait' = WaitRecord(IF w.raised THEN "refused" ELSE "admitted",
                                       w.slept, rl, rl_clock)
    /\ Frame({"limiter"})

\* The rest of _make_request: the request is sent and its outcome recorded.
MakeRequestRecord ==
    /\ rl_pc = "admitted"
    /\ \E response \in Responses :
          LET r == RecordRequest(rl, rl_clock, response)
          IN  /\ rl' = r.rl
              /\ rl_clock' = ClockAfter(r.rl, rl_clock, r.slept)
    /\ rl_pc' = "idle"
    /\ UNCHANGED <<rl_wait>>
    /\ Frame({"limiter"})

\* Time passes between two requests.
Elapse ==
    /\ rl_pc = "idle"
    /\ rl.circuit_breaker_open_time # NoTime
    /\ \E pause \in Pauses :
          /\ rl_clock + pause <= MaxClock
          /\ rl_clock' = rl_clock + pause
    /\ UNCHANGED <<rl, rl_pc, rl_wait>>
    /\ Frame({"limiter"})

\* RateLimiter.reset
Reset(l) ==
    [l EXCEPT !.stats = RequestStats,
              !.current_delay = l.min_delay,
              !.requests_since_break = 0,
              !.circuit_breaker_open = FALSE,
              !.circuit_breaker_open_time = NoTime]

\* reset() between two requests; the record of the last wait is dropped.
LimiterReset ==
    /\ rl_pc = "idle"
    /\ rl' = Reset(rl)
    /\ rl_clock' = ClockAfter(Reset(rl), rl_clock, 0)
    /\ rl_wait' = NoWait
    /\ UNCHANGED <<rl_pc>>
    /\ Frame({"limiter"})

(***************************************************************************)
(* The limiter used directly: wait_if_needed, record_request and reset in  *)
(* any order, with time passing in between.                                *)
(***************************************************************************)
\* Outcomes recorded by a direct caller: a success, a failure, and a
\* blocking status, each answered in half a second.
DirectResponses ==
    { Response(Frac(1, 2), 200, TRUE), Response(Frac(1, 2), 500, FALSE),
      Response(Frac(1, 2), 429, FALSE) }

CallWaitIfNeeded ==
    /\ rl_pc = "idle"
    /\ \E jitter \in Jitters :
          \E w \in { WaitIfNeeded(rl, rl_clock, jitter) } :
              /\ rl' = w.rl
              /\ rl_clock' = ClockAfter(w.rl, rl_clock, Ceil(w.slept))
    /\ UNCHANGED <<rl_pc, rl_wait>>
    /\ Frame({"limiter"})

CallRecordRequest ==
    /\ rl_pc = "idle"
    /\ rl.stats.total_requests < MaxRequests
    /\ \E response \in DirectResponses :
          \E r \in { RecordRequest(rl, rl_clock, response) } :
              /\ rl' = r.rl
              /\ rl_clock' = ClockAfter(r.rl, rl_clock, r.slept)
    /\ UNCHANGED <<rl_pc, rl_wait>>
    /\ Frame({"limiter"})

(***************************************************************************)
(* The simple rate limiter of tgpc/scraper.py under Scraper._request:      *)
(* wait(), the HTTP request, then record_result(True) or, on any           *)
(* exception, record_result(False).                                        *)
(***************************************************************************)
MaxResults == 6     \* results one scraper records

\* scraper.RateLimiter.__init__
SimpleRateLimiter(config) ==
    [ min_delay            |-> config.min_delay,
      max_delay            |-> config.max_delay,
      current_delay        |-> config.min_delay,
      consecutive_failures |-> 0 ]

\* scraper.RateLimiter.record_result
RecordResult(l, success) ==
    IF success
    THEN [l EXCEPT !.consecutive_failures = 0,
                   !.current_delay = FloatMax(l.min_delay, Times(l.current_delay, Frac(9, 10)))]
    ELSE [l EXCEPT !.consecutive_failures = @ + 1,
                   !.current_delay = FloatMin(l.max_delay, Times(l.current_delay, Frac(3, 2)))]

\* TGPC_MIN_DELAY and TGPC_MAX_DELAY can be set the wrong way round.
SwappedConfig ==
    [Config(long_break_after) EXCEPT !.min_delay = max_delay, !.max_delay = min_delay]

DelayConfigs == Configs \cup { SwappedConfig }

SimpleIdle ==
    /\ sl = SimpleRateLimiter(Config(long_break_after))
    /\ sl_pc = "off"
    /\ sl_recorded = 0

SimpleInit ==
    /\ sl \in { SimpleRateLimiter(config) : config \in DelayConfigs }
    /\ sl_pc = "idle"
    /\ sl_recorded = 0

\* Scraper._request up to the return of rate_limiter.wait()
ScraperRequestWait ==
    /\ sl_pc = "idle"
    /\ sl_recorded < MaxResults
    /\ sl_pc' = "waited"
    /\ UNCHANGED <<sl, sl_recorded>>
    /\ Frame({"simple"})

\* The rest of Scraper._request: the request and record_result
ScraperRequestRecord ==
    /\ sl_pc = "waited"
    /\ \E success \in BOOLEAN : sl' = RecordResult(sl, success)
    /\ sl_recorded' = sl_recorded + 1
    /\ sl_pc' = "idle"
    /\ Frame({"simple"})

\* No extractor exists: the adaptive limiter is not in use.
LimiterOff ==
    /\ rl = NewRateLimiter(Config(long_break_after))
    /\ rl_clock = 0
    /\ rl_pc = "off"
    /\ rl_wait = NoWait

(***************************************************************************)
(* PharmacistExtractor._make_request under its tenacity decorator          *)
(* (tgpc/extractors/pharmacist_extractor.py), with the exception classes   *)
(* of tgpc/core/exceptions.py.  An attempt is one execution of the         *)
(* function body: wait_if_needed, the HTTP request, record_request.        *)
(***************************************************************************)
stop_after_attempt == 3

\* wait_exponential(multiplier=1, min=4, max=10) after failed attempt n
WaitExponential(n) ==
    LET exp == IF n = 1 THEN 1 ELSE 2 * (n - 1)
    IN  IF exp < 4 THEN 4 ELSE IF exp > 10 THEN 10 ELSE exp

\* class -> its base classes (itself included)
Bases(class) ==
    CASE class = "RateLimitException" -> {"RateLimitException", "NetworkException", "TGPCException", "Exception"}
      [] class = "NetworkException" -> {"NetworkException", "TGPCException", "Exception"}
      [] class = "DataValidationException" -> {"DataValidationException", "TGPCException", "Exception"}
      [] class = "AuthenticationException" -> {"AuthenticationException", "TGPCException", "Exception"}
      [] class = "Timeout" -> {"Timeout", "RequestException", "Exception"}
      [] class = "ConnectionError" -> {"ConnectionError", "RequestException", "Exception"}
      [] OTHER -> {class, "Exception"}

\* HTTP_EXCEPTION_MAP.get(status_code, NetworkException)
HttpExceptionMap(status_code) ==
    CASE status_code = 400 -> "DataValidationException"
      [] status_code \in {401, 403} -> "AuthenticationException"
      [] status_code = 429 -> "RateLimitException"
      [] OTHER -> "NetworkException"

\* Keyword parameters the constructor chain of a class accepts.
InitKeywords(class) ==
    CASE class = "NetworkException" ->
            {"message", "status_code", "url", "error_code", "context", "cause"}
      [] class = "RateLimitException" ->
            {"message", "retry_after", "status_code", "url", "error_code", "context", "cause"}
      [] class = "DataValidationException" ->
            {"message", "field_name", "field_value", "validation_rule",
             "error_code", "context", "cause"}
      [] class = "AuthenticationException" ->
            {"message", "auth_type", "error_code", "context", "cause"}
      [] OTHER -> {"message"}

\* create_http_exception: the class of what the call produces; constructing
\* a class with a keyword it does not take raises TypeError instead.
CreateHttpException(status_code) ==
    LET exception_class == HttpExceptionMap(status_code)
    IN  IF {"message", "status_code", "url", "error_code"} \subseteq InitKeywords(exception_class)
        THEN exception_class
        ELSE "TypeError"

\* a retry predicate that retries after every exception
RetryIfAnyException(class) == TRUE

\* retry_if_exception_type((requests.exceptions.RequestException, NetworkException))
RetryIfExceptionType(class) ==
    Bases(class) \cap {"RequestException", "NetworkException"} # {}

\* What the site or the network does to one attempt: a response with an
\* HTTP status, or an exception of the requests library (status 0).
Answer(status_code) == [status_code |-> status_code, error |-> "none"]

Failure(error) == [status_code |-> 0, error |-> error]

Outcomes ==
    { Answer(status_code) : status_code \in {200, 400, 403, 429, 500} }
      \cup { Failure(error) : error \in {"Timeout", "ConnectionError"} }

\* What the attempt hands to record_request.
RecordedResponse(outcome) ==
    IF outcome.error = "none"
    THEN Response(Frac(1, 2), outcome.status_code, outcome.status_code < 400)
    ELSE Response(Whole(0), 0, FALSE)

\* The class of the exception the function body ends with, "none" if it returns.
AttemptException(outcome) ==
    IF outcome.error = "none"
    THEN IF outcome.status_code >= 400
         THEN CreateHttpException(outcome.status_code)
         ELSE "none"
    ELSE "NetworkException"

RequestIdle ==
    /\ rq_pc = "idle"
    /\ rq_outcomes = <<>>
    /\ rq_waits = 0
    /\ rq_records = 0
    /\ rq_exit = "none"

\* _make_request is called.
RequestCall ==
    /\ rq_pc = "idle"
    /\ rl_pc = "idle"
    /\ rl.stats.total_requests + stop_after_attempt <= MaxRequests
    /\ rq_pc' = "waiting"
    /\ UNCHANGED <<rq_outcomes, rq_waits, rq_records, rq_exit>>
    /\ Frame({"request"})

\* The attempt's wait_if_needed; its exception is not one the decorator retries.
AttemptWait ==
    /\ rq_pc = "waiting"
    /\ \E jitter \in Jitters :
          LET w == WaitIfNeeded(rl, rl_clock, jitter)
          IN  /\ rl' = w.rl
              /\ rl_pc' = IF w.raised THEN "idle" ELSE "admitted"
              /\ rl_clock' = ClockAfter(w.rl, rl_clock, Ceil(w.slept))
              /\ rl_wait' = WaitRecord(IF w.raised THEN "refused" ELSE "admitted",
                                       w.slept, rl, rl_clock)
              /\ rq_waits' = IF w.raised THEN rq_waits ELSE rq_waits + 1
              /\ rq_pc' = IF w.raised /\ ~RetryIfExceptionType("Exception")
                          THEN "done"
                          ELSE IF w.raised THEN "waiting" ELSE "sending"
              /\ rq_exit' = IF w.raised /\ ~RetryIfExceptionType("Exception")
                            THEN "Exception" ELSE rq_exit
    /\ UNCHANGED <<rq_outcomes, rq_records>>
    /\ Frame({"request", "limiter"})

\* The attempt's HTTP request, its record_request and the decorator's decision.
AttemptSend ==
    /\ rq_pc = "sending"
    /\ \E outcome \in Outcomes :
          LET r == RecordRequest(rl, rl_clock, RecordedResponse(outcome))
              raised == AttemptException(outcome)
              attempts == Len(rq_outcomes) + 1
              again == raised # "none" /\ RetryIfExceptionType(raised)
                          /\ attempts < stop_after_attempt
          IN  /\ rl' = r.rl
              /\ rl_clock' = ClockAfter(r.rl, rl_clock,
                                r.slept + IF again THEN WaitExponential(attempts) ELSE 0)
              /\ rq_outcomes' = Append(rq_outcomes, outcome)
              /\ rq_pc' = IF again THEN "waiting" ELSE "done"
              /\ rq_exit' = IF raised = "none" THEN "returned"
                            ELSE IF again THEN rq_exit
                            ELSE IF RetryIfExceptionType(raised) THEN "RetryError"
                            ELSE raised
    /\ rq_records' = rq_records + 1
    /\ rl_pc' = "idle"
    /\ UNCHANGED <<rl_wait, rq_waits>>
    /\ Frame({"request", "limiter"})

\* The caller has the response or the exception.
RequestDone ==
    /\ rq_pc = "done"
    /\ rq_pc' = "idle"
    /\ rq_outcomes' = <<>>
    /\ rq_waits' = 0
    /\ rq_records' = 0
    /\ rq_exit' = "none"
    /\ Frame({"request"})

(***************************************************************************)
(* AutomationScheduler._run_update_with_retries.  Each attempt builds a    *)
(* DailyUpdater (which can raise, e.g. when the backup directory cannot be *)
(* created) and runs perform_daily_update on the dataset and backups of    *)
(* the daily updater.                                                      *)
(***************************************************************************)
max_retries == 3
retry_delay_minutes == 30

NoStatus == [exists |-> FALSE, result |-> NoResult]

\* AutomationScheduler._save_status
SaveStatus(result) == [exists |-> TRUE, result |-> result]

\* run_daily_update: DailyUpdater() and then perform_daily_update()
RunDailyUpdateEntry(file, backups, constructor_raises, env) ==
    IF constructor_raises
    THEN [raised |-> TRUE, file |-> file, backups |-> backups, result |-> NoResult]
    ELSE LET out == PerformDailyUpdate(file, backups, env)
         IN  [raised |-> FALSE, file |-> out.file, backups |-> out.backups,
              result |-> out.result]

\* The result built after the last attempt raised.
AllAttemptsFailed ==
    UpdateResult(FALSE, 0, 0, 0, 0, 0, Ratio(0, 1), "",
                 <<Message("All attempts failed. Last error", "")>>, <<>>)

AttemptLog(outcome, saved, slept) ==
    [outcome |-> outcome, saved |-> saved, slept |-> slept]

\* One iteration of the loop of _run_update_with_retries: what it leaves
\* behind, and whether the function returns.
RetryIteration(attempt, status, last_result, run) ==
    IF ~run.raised
    THEN IF run.result.success
         THEN [log |-> AttemptLog("success", TRUE, 0), status |-> SaveStatus(run.result),
               last_result |-> run.result, returns |-> TRUE, value |-> run.result]
         ELSE IF attempt < max_retries
              THEN [log |-> AttemptLog("failed", TRUE, retry_delay_minutes),
                    status |-> SaveStatus(run.result), last_result |-> run.result,
                    returns |-> FALSE, value |-> NoResult]
              ELSE [log |-> AttemptLog("failed", TRUE, 0),
                    status |-> SaveStatus(run.result), last_result |-> run.result,
                    returns |-> TRUE, value |-> run.result]
    ELSE IF attempt < max_retries
         THEN [log |-> AttemptLog("raised", FALSE, retry_delay_minutes),
               status |-> status, last_result |-> last_result,
               returns |-> FALSE, value |-> NoResult]
         ELSE [log |-> AttemptLog("raised", TRUE, 0),
               status |-> SaveStatus(AllAttemptsFailed), last_result |-> AllAttemptsFailed,
               returns |-> TRUE, value |-> AllAttemptsFailed]

\* What the world does during an attempt: the site serves nothing or a full
\* listing, and the extraction works or fails.
SchedulerEnvs ==
    [ fresh : {<<>>, <<Valid(1..80000)>>, <<Valid(1..84000)>>},
      fault : {"none", "extract"},
      expired : {FALSE} ]

SchedulerIdle ==
    /\ sc_pc = "idle"
    /\ sc_attempt = 0
    /\ sc_log = <<>>
    /\ sc_status = NoStatus
    /\ sc_last_result = NoResult
    /\ sc_return = NoResult

SchedulerInit == rx_file \in StoredChoices /\ UpdaterIdle /\ SchedulerIdle

\* _run_update_with_retries is entered (by the daily job or run_manual_update).
RunUpdateWithRetries ==
    /\ sc_pc = "idle"
    /\ sc_pc' = "running"
    /\ sc_attempt' = 1
    /\ sc_log' = <<>>
    /\ sc_return' = NoResult
    /\ UNCHANGED <<sc_status, sc_last_result>>
    /\ Frame({"scheduler"})

\* One attempt, up to the sleep that follows it or to the return.
UpdateAttempt ==
    /\ sc_pc = "running"
    /\ \E constructor_raises \in BOOLEAN, env \in SchedulerEnvs :
       \E run \in { RunDailyUpdateEntry(rx_file, up_backups, constructor_raises, env) } :
       \E it \in { RetryIteration(sc_attempt, sc_status, sc_last_result, run) } :
          /\ rx_file' = run.file
          /\ up_backups' = run.backups
          /\ sc_log' = Append(sc_log, it.log)
          /\ sc_status' = it.status
          /\ sc_last_result' = it.last_result
          /\ sc_return' = it.value
          /\ sc_pc' = IF it.returns THEN "returned" ELSE "running"
          /\ sc_attempt' = IF it.returns THEN sc_attempt ELSE sc_attempt + 1
    /\ UNCHANGED <<up_pc, up_before, up_env, up_trace, up_result>>
    /\ Frame({"scheduler", "updater"})

\* The caller has the result.
RunUpdateReturned ==
    /\ sc_pc = "returned"
    /\ sc_pc' = "idle"
    /\ sc_attempt' = 0
    /\ UNCHANGED <<sc_log, sc_status, sc_last_result, sc_return>>
    /\ Frame({"scheduler"})

(***************************************************************************)
(* AutomationScheduler.start_scheduler, stop_scheduler and the polling     *)
(* loop (src/tgpc/automation/scheduler.py 40-67, 89-97).  One thread calls *)
(* start and stop; every start that is not refused creates a daemon thread *)
(* running _scheduler_loop.  The job list is the one of the schedule       *)
(* module, shared by all threads.  A job is due from the day of its        *)
(* next_run on; run_pending calls the job function and moves next_run only *)
(* after the function has returned.  _run_update_with_retries catches      *)
(* every exception, so the except branch of the loop is not entered by it. *)
(***************************************************************************)
MaxThreads == 2
MaxDays == 2
Threads == 1..MaxThreads
NoThread == 0
NoJob == 0

IsAlive(t) == th_pc[t] \notin {"unborn", "dead"}

\* schedule.every().day.at(update_time): the next passing of the update time.
NextDailyRun(day) == day + 1

\* job.should_run
ShouldRun(job) == th_day >= th_next_run[job]

ThreadsIdle ==
    /\ th_is_running = FALSE
    /\ th_scheduler_thread = NoThread
    /\ th_pc = [t \in Threads |-> "unborn"]
    /\ th_job = [t \in Threads |-> NoJob]
    /\ th_jobs = {}
    /\ th_next_run = [t \in Threads |-> 0]
    /\ th_day = 0
    /\ th_caller = "idle"
    /\ th_runs = {}

\* start_scheduler: refused while is_running; otherwise the flag is set, the
\* job list is replaced by one new daily job and a new thread is started.
StartScheduler ==
    /\ th_caller = "idle"
    /\ IF th_is_running
       THEN UNCHANGED threadVars
       ELSE /\ \E t \in Threads :
                 /\ th_pc[t] = "unborn"
                 /\ \A u \in Threads : th_pc[u] = "unborn" => t <= u
                 /\ th_is_running' = TRUE
                 /\ th_jobs' = {t}
                 /\ th_next_run' = [th_next_run EXCEPT ![t] = NextDailyRun(th_day)]
                 /\ th_scheduler_thread' = t
                 /\ th_pc' = [th_pc EXCEPT ![t] = "test"]
            /\ UNCHANGED <<th_job, th_day, th_caller, th_runs>>
    /\ Frame({"threads"})

\* stop_scheduler up to the join: the flag is cleared and the job list
\* emptied; the caller joins the thread of the last start if it is alive.
StopScheduler ==
    /\ th_caller = "idle"
    /\ th_is_running' = FALSE
    /\ th_jobs' = {}
    /\ th_caller' = IF th_scheduler_thread # NoThread /\ IsAlive(th_scheduler_thread)
                    THEN "joining" ELSE "idle"
    /\ UNCHANGED <<th_scheduler_thread, th_pc, th_job, th_next_run, th_day, th_runs>>
    /\ Frame({"threads"})

\* join(timeout=5) returns: the thread has ended, or five seconds have gone
\* by while it sleeps its minute or executes an update.
JoinReturns ==
    /\ th_caller = "joining"
    /\ th_pc[th_scheduler_thread] \in {"dead", "sleep", "job"}
    /\ th_caller' = "idle"
    /\ UNCHANGED <<th_is_running, th_scheduler_thread, th_pc, th_job, th_jobs,
                   th_next_run, th_day, th_runs>>
    /\ Frame({"threads"})

\* `while self.is_running`
LoopTest(t) ==
    /\ th_pc[t] = "test"
    /\ th_pc' = [th_pc EXCEPT ![t] = IF th_is_running THEN "poll" ELSE "dead"]
    /\ UNCHANGED <<th_is_running, th_scheduler_thread, th_job, th_jobs,
                   th_next_run, th_day, th_caller, th_runs>>
    /\ Frame({"threads"})

\* schedule.run_pending(): a due job is started; with none due the thread
\* goes on to time.sleep(60).
RunPending(t) ==
    /\ th_pc[t] = "poll"
    /\ LET due == { j \in th_jobs : ShouldRun(j) }
       IN IF due = {}
          THEN /\ th_pc' = [th_pc EXCEPT ![t] = "sleep"]
               /\ UNCHANGED <<th_job, th_runs>>
          ELSE \E j \in due :
               /\ th_pc' = [th_pc EXCEPT ![t] = "job"]
               /\ th_job' = [th_job EXCEPT ![t] = j]
               /\ th_runs' = th_runs \cup {[thread |-> t, job |-> j, day |-> th_day]}
    /\ UNCHANGED <<th_is_running, th_scheduler_thread, th_jobs, th_next_run,
                   th_day, th_caller>>
    /\ Frame({"threads"})

\* _run_update_with_retries returns to run_pending, which reschedules the
\* job; the thread goes on to time.sleep(60).
JobReturns(t) ==
    /\ th_pc[t] = "job"
    /\ th_next_run' = [th_next_run EXCEPT ![th_job[t]] = NextDailyRun(th_day)]
    /\ th_job' = [th_job EXCEPT ![t] = NoJob]
    /\ th_pc' = [th_pc EXCEPT ![t] = "sleep"]
    /\ UNCHANGED <<th_is_running, th_scheduler_thread, th_jobs, th_day,
                   th_caller, th_runs>>
    /\ Frame({"threads"})

\* time.sleep(60) is over.
Wake(t) ==
    /\ th_pc[t] = "sleep"
    /\ th_pc' = [th_pc EXCEPT ![t] = "test"]
    /\ UNCHANGED <<th_is_running, th_scheduler_thread, th_job, th_jobs,
                   th_next_run, th_day, th_caller, th_runs>>
    /\ Frame({"threads"})

\* The clock passes the update time.
DailyTrigger ==
    /\ th_day < MaxDays
    /\ th_day' = th_day + 1
    /\ UNCHANGED <<th_is_running, th_scheduler_thread, th_pc, th_job, th_jobs,
                   th_next_run, th_caller, th_runs>>
    /\ Frame({"threads"})

(***************************************************************************)
(* DetailedExtractor.extract_batch                                         *)
(* (src/tgpc/extractors/detailed_extractor.py 185-274).  The basic records *)
(* are reduced to their registration numbers; a detail file is absent,     *)
(* holds the data of one fetch, or is the truncated file that a failed     *)
(* json.dump leaves behind.  The lists of registration numbers kept in the *)
(* status dictionary are left out; its counters and index are kept.        *)
(***************************************************************************)
MaxBasic == 3
MaxBatches == 2
status_save_every == 10
DetailRegs == {"TG000001", "TG000002"}
DetailData == {"page"}

AbsentDetail == [exists |-> FALSE, data |-> "none"]
DetailFile(data) == [exists |-> TRUE, data |-> data]

\* get_extraction_status
GetExtractionStatus(status_file) ==
    IF status_file.exists
    THEN status_file.status
    ELSE [total_records |-> 0, extracted_count |-> 0, failed_count |-> 0,
          last_processed_index |-> -1]

SaveExtractionStatus(status) == [exists |-> TRUE, status |-> status]

NeverExtracted(files, registration_number) == FALSE

\* is_already_extracted
IsAlreadyExtracted(files, registration_number) == files[registration_number].exists

\* save_detailed_record: the file after the call and the value returned.
\* open() can fail before the file is touched; json.dump can fail after
\* open() has truncated or created it.
SaveDetailedRecord(files, registration_number, data, fault) ==
    CASE fault = "none" ->
           [files |-> [files EXCEPT ![registration_number] = DetailFile(data)], ok |-> TRUE]
      [] fault = "open" -> [files |-> files, ok |-> FALSE]
      [] fault = "dump" ->
           [files |-> [files EXCEPT ![registration_number] = DetailFile("truncated")], ok |-> FALSE]

BatchResults(start_index, end_index) ==
    [processed |-> 0, extracted |-> 0, skipped |-> 0, failed |-> 0,
     start_index |-> start_index, end_index |-> end_index - 1]

\* end_index and basic_records[start_index:end_index]
EndIndex(basic, args) ==
    IF args.start_index + args.batch_size <= Len(basic)
    THEN args.start_index + args.batch_size ELSE Len(basic)
BatchRecords(basic, args) == SubSeq(basic, args.start_index + 1, EndIndex(basic, args))

\* One pass through the body of the loop for the record at position i of the
\* batch; `fetched` is what extract_single_detailed_record returns ("none"
\* for None) and `fault` what happens to the save.
BatchIteration(files, status, results, args, i, registration_number, fetched, fault) ==
    LET counted == [results EXCEPT !.processed = @ + 1]
        current_index == args.start_index + i
    IN IF IsAlreadyExtracted(files, registration_number)
       THEN [files |-> files, status |-> status, fetched |-> FALSE, save_status |-> FALSE,
             results |-> [counted EXCEPT !.skipped = @ + 1]]
       ELSE LET save == IF fetched = "none"
                        THEN [files |-> files, ok |-> FALSE]
                        ELSE SaveDetailedRecord(files, registration_number, fetched, fault)
                tallied == IF save.ok
                           THEN [status EXCEPT !.extracted_count = @ + 1]
                           ELSE [status EXCEPT !.failed_count = @ + 1]
            IN [files |-> save.files,
                status |-> [tallied EXCEPT !.last_processed_index = current_index],
                fetched |-> TRUE,
                save_status |-> (i + 1) % status_save_every = 0,
                results |-> IF save.ok
                            THEN [counted EXCEPT !.extracted = @ + 1]
                            ELSE [counted EXCEPT !.failed = @ + 1]]

DetailIdle ==
    /\ dx_basic = <<>>
    /\ dx_files = [r \in DetailRegs |-> AbsentDetail]
    /\ dx_status_file = [exists |-> FALSE, status |-> GetExtractionStatus([exists |-> FALSE])]
    /\ dx_pc = "idle"
    /\ dx_args = [start_index |-> 0, batch_size |-> 0]
    /\ dx_i = 0
    /\ dx_status = GetExtractionStatus([exists |-> FALSE])
    /\ dx_results = BatchResults(0, 0)
    /\ dx_before = dx_files
    /\ dx_fetched = {}
    /\ dx_calls = 0

BoundedSeqs(S, n) == UNION { [1..k -> S] : k \in 0..n }

\* rx.json holds up to MaxBasic records; any of the detail files may be there
\* from earlier runs.
DetailInit ==
    /\ dx_basic \in BoundedSeqs(DetailRegs, MaxBasic) \ {<<>>}
    /\ dx_files \in [DetailRegs -> {AbsentDetail, DetailFile("earlier")}]
    /\ dx_status_file = [exists |-> FALSE, status |-> GetExtractionStatus([exists |-> FALSE])]
    /\ dx_pc = "idle"
    /\ dx_args = [start_index |-> 0, batch_size |-> 0]
    /\ dx_i = 0
    /\ dx_status = GetExtractionStatus([exists |-> FALSE])
    /\ dx_results = BatchResults(0, 0)
    /\ dx_before = dx_files
    /\ dx_fetched = {}
    /\ dx_calls = 0

\* extract_batch(start_index, batch_size) up to the loop.
ExtractBatch ==
    /\ dx_pc = "idle"
    /\ dx_calls < MaxBatches
    /\ \E start_index \in 0..MaxBasic, batch_size \in 1..MaxBasic :
          LET args == [start_index |-> start_index, batch_size |-> batch_size]
          IN /\ dx_args' = args
             /\ dx_results' = BatchResults(start_index, EndIndex(dx_basic, args))
    /\ dx_status' = [GetExtractionStatus(dx_status_file) EXCEPT !.total_records = Len(dx_basic)]
    /\ dx_i' = 0
    /\ dx_before' = dx_files
    /\ dx_fetched' = {}
    /\ dx_pc' = "loop"
    /\ UNCHANGED <<dx_basic, dx_files, dx_status_file, dx_calls>>
    /\ Frame({"detail"})

\* The body of the loop for the next record of the batch.
ProcessRecord ==
    /\ dx_pc = "loop"
    /\ dx_i < Len(BatchRecords(dx_basic, dx_args))
    /\ \E fetched \in DetailData \cup {"none"}, fault \in {"none", "open", "dump"} :
       \E it \in { BatchIteration(dx_files, dx_status, dx_results, dx_args, dx_i,
                                  BatchRecords(dx_basic, dx_args)[dx_i + 1], fetched, fault) } :
          /\ dx_files' = it.files
          /\ dx_status' = it.status
          /\ dx_results' = it.results
          /\ dx_fetched' = IF it.fetched
                           THEN dx_fetched \cup {BatchRecords(dx_basic, dx_args)[dx_i + 1]}
                           ELSE dx_fetched
          /\ dx_status_file' = IF it.save_status
                               THEN SaveExtractionStatus(it.status) ELSE dx_status_file
    /\ dx_i' = dx_i + 1
    /\ UNCHANGED <<dx_basic, dx_pc, dx_args, dx_before, dx_calls>>
    /\ Frame({"detail"})

\* After the loop: the final save of the status; batch_results is returned.
BatchDone ==
    /\ dx_pc = "loop"
    /\ dx_i = Len(BatchRecords(dx_basic, dx_args))
    /\ dx_status_file' = SaveExtractionStatus(dx_status)
    /\ dx_pc' = "returned"
    /\ UNCHANGED <<dx_basic, dx_files, dx_args, dx_i, dx_status, dx_results,
                   dx_before, dx_fetched, dx_calls>>
    /\ Frame({"detail"})

\* get_next_batch_index
GetNextBatchIndex(status_file) ==
    GetExtractionStatus(status_file).last_processed_index + 1

\* extract_detailed_batch(None, batch_size) while records are left: the
\* batch starts at get_next_batch_index().
ExtractDetailedBatch ==
    /\ dx_pc = "idle"
    /\ dx_calls < MaxBatches
    /\ GetNextBatchIndex(dx_status_file) < Len(dx_basic)
    /\ \E batch_size \in 1..MaxBasic :
          LET args == [start_index |-> GetNextBatchIndex(dx_status_file),
                       batch_size |-> batch_size]
          IN /\ dx_args' = args
             /\ dx_results' = BatchResults(args.start_index, EndIndex(dx_basic, args))
    /\ dx_status' = [GetExtractionStatus(dx_status_file) EXCEPT !.total_records = Len(dx_basic)]
    /\ dx_i' = 0
    /\ dx_before' = dx_files
    /\ dx_fetched' = {}
    /\ dx_pc' = "loop"
    /\ UNCHANGED <<dx_basic, dx_files, dx_status_file, dx_calls>>
    /\ Frame({"detail"})

\* The caller has the results.
BatchReturned ==
    /\ dx_pc = "returned"
    /\ dx_pc' = "idle"
    /\ dx_calls' = dx_calls + 1
    /\ UNCHANGED <<dx_basic, dx_files, dx_status_file, dx_args, dx_i, dx_status,
                   dx_results, dx_before, dx_fetched>>
    /\ Frame({"detail"})

(***************************************************************************)
(* TGPCEngine.sync_with_website (src/tgpc/core/engine.py 94-134), on the   *)
(* FileManager operators above.                                            *)
(***************************************************************************)
MaxSyncRegs == 2

NewRegNumbers(existing_records, current_records) ==
    RegNumbers(current_records) \ RegNumbers(existing_records)

RemovedIgnored(existing_records, current_records) == {}

RemovedRegNumbers(existing_records, current_records) ==
    RegNumbers(existing_records) \ RegNumbers(current_records)

SyncResult(status, total_records, new_records, removed_records) ==
    [status |-> status, total_records |-> total_records,
     new_records |-> new_records, removed_records |-> removed_records]

NoSync == [raised |-> FALSE, error |-> "", file |-> AbsentFile, result |-> SyncResult("", 0, 0, 0)]

\* sync_with_website: the file after the call and the result, or the
\* exception that left the call.
SyncWithWebsite(file, env) ==
    LET loaded == IF file.exists
                  THEN FileManagerLoadRecords(file, env.fault = "load")
                  ELSE Returned(<<>>)
        current == EngineExtractBasicRecords(env)
    IN IF loaded.raised
       THEN [raised |-> TRUE, error |-> loaded.error, file |-> file, result |-> NoSync.result]
       ELSE IF current.raised
       THEN [raised |-> TRUE, error |-> current.error, file |-> file, result |-> NoSync.result]
       ELSE LET new_reg_numbers == NewRegNumbers(loaded.value, current.value)
                removed_reg_numbers == RemovedRegNumbers(loaded.value, current.value)
            IN IF new_reg_numbers # {} \/ removed_reg_numbers # {}
               THEN LET saved == EngineSaveRecords(file, current.value, {})
                    IN IF saved.raised
                       THEN [raised |-> TRUE, error |-> saved.error, file |-> saved.file,
                             result |-> NoSync.result]
                       ELSE [raised |-> FALSE, error |-> "", file |-> saved.file,
                             result |-> SyncResult("updated", Count(current.value),
                                                   Cardinality(new_reg_numbers),
                                                   Cardinality(removed_reg_numbers))]
               ELSE [raised |-> FALSE, error |-> "", file |-> file,
                     result |-> SyncResult("no_changes", Count(loaded.value), 0, 0)]

\* The listings and stored datasets of the sync runs: up to two blocks of
\* records over MaxSyncRegs registration numbers.
SyncBlocks == { Valid(S) : S \in (SUBSET (1..MaxSyncRegs)) \ {{}} }
SyncDatasets == {<<>>} \cup { <<b>> : b \in SyncBlocks } \cup (SyncBlocks \X SyncBlocks)
SyncEnvs == [fresh : SyncDatasets, fault : {"none", "load", "extract"}, expired : {FALSE}]

SyncIdle ==
    /\ sy_file = AbsentFile
    /\ sy_pc = "idle"
    /\ sy_before = AbsentFile
    /\ sy_env = NoEnv
    /\ sy_out = NoSync

SyncInit ==
    /\ sy_file \in {AbsentFile} \cup { StoredFile(AllFields, d) : d \in SyncDatasets }
    /\ sy_pc = "idle"
    /\ sy_before = AbsentFile
    /\ sy_env = NoEnv
    /\ sy_out = NoSync

\* One call of sync_with_website.
SyncRun ==
    /\ sy_pc = "idle"
    /\ \E env \in SyncEnvs :
       \E out \in { SyncWithWebsite(sy_file, env) } :
          /\ sy_env' = env
          /\ sy_out' = out
          /\ sy_file' = out.file
    /\ sy_before' = sy_file
    /\ sy_pc' = "returned"
    /\ Frame({"sync"})

\* The caller has the result.
SyncConsumed ==
    /\ sy_pc = "returned"
    /\ sy_pc' = "idle"
    /\ UNCHANGED <<sy_file, sy_before, sy_env, sy_out>>
    /\ Frame({"sync"})

(***************************************************************************)
(* Texts.  A text is a sequence of one-character strings, so that the      *)
(* string methods the code applies can be computed.                        *)
(***************************************************************************)
LowerLetters ==
    <<"a", "b", "c", "d", "e", "f", "g", "h", "i", "j", "k", "l", "m", "n", "o", "p", "q", "r", "s", "t", "u", "v", "w", "x", "y", "z">>
UpperLetters ==
    <<"A", "B", "C", "D", "E", "F", "G", "H", "I", "J", "K", "L", "M", "N", "O", "P", "Q", "R", "S", "T", "U", "V", "W", "X", "Y", "Z">>
DigitChars == <<"0", "1", "2", "3", "4", "5", "6", "7", "8", "9">>

IndexOf(c, s) == IF \E i \in 1..Len(s) : s[i] = c THEN CHOOSE i \in 1..Len(s) : s[i] = c ELSE 0

IsLetter(c) == IndexOf(c, LowerLetters) > 0 \/ IndexOf(c, UpperLetters) > 0
IsDigitChar(c) == IndexOf(c, DigitChars) > 0
UpperChar(c) == IF IndexOf(c, LowerLetters) > 0 THEN UpperLetters[IndexOf(c, LowerLetters)] ELSE c
LowerChar(c) == IF IndexOf(c, UpperLetters) > 0 THEN LowerLetters[IndexOf(c, UpperLetters)] ELSE c

\* str.upper, str.isdigit, str.startswith, str.zfill, str.title, str.strip
StrUpper(s) == [i \in 1..Len(s) |-> UpperChar(s[i])]
StrIsDigit(s) == s # <<>> /\ \A i \in 1..Len(s) : IsDigitChar(s[i])
StartsWith(s, prefix) == Len(s) >= Len(prefix) /\ SubSeq(s, 1, Len(prefix)) = prefix
RECURSIVE ZFill(_, _)
ZFill(s, width) == IF Len(s) >= width THEN s ELSE ZFill(<<"0">> \o s, width)
StrTitle(s) ==
    [i \in 1..Len(s) |-> IF i = 1 \/ ~IsLetter(s[i - 1]) THEN UpperChar(s[i]) ELSE LowerChar(s[i])]
RECURSIVE StrStrip(_)
StrStrip(s) ==
    IF s = <<>> THEN s
    ELSE IF Head(s) = " " THEN StrStrip(Tail(s))
    ELSE IF s[Len(s)] = " " THEN StrStrip(SubSeq(s, 1, Len(s) - 1))
    ELSE s

\* re.sub(r'\s+', ' ', s)
RECURSIVE CollapseSpaces(_)
CollapseSpaces(s) ==
    IF Len(s) < 2 THEN s
    ELSE IF s[1] = " " /\ s[2] = " " THEN CollapseSpaces(Tail(s))
    ELSE <<s[1]>> \o CollapseSpaces(Tail(s))

\* int(s) of a text of digits
RECURSIVE StrInt(_)
StrInt(s) ==
    IF s = <<>> THEN 0
    ELSE 10 * StrInt(SubSeq(s, 1, Len(s) - 1)) + (IndexOf(s[Len(s)], DigitChars) - 1)

(***************************************************************************)
(* PharmacistRecord (src/tgpc/models/pharmacist.py 84-290): construction   *)
(* with the clean-up of __post_init__, and the two dictionary forms.       *)
(***************************************************************************)
zfill_width == 6

\* re.match(r'^(TS|TG)[A-Z]*\d+$', reg_no, re.IGNORECASE)
MatchesRegistrationPattern(reg_no) ==
    LET u == StrUpper(reg_no)
    IN /\ StartsWith(u, <<"T", "S">>) \/ StartsWith(u, <<"T", "G">>)
       /\ \E k \in 2..(Len(u) - 1) :
             /\ \A i \in 3..k : IndexOf(u[i], UpperLetters) > 0
             /\ \A i \in (k + 1)..Len(u) : IsDigitChar(u[i])

\* _clean_registration_number
CleanRegistrationNumber(reg_no) ==
    IF reg_no = <<>> THEN Raised("Registration number is required")
    ELSE LET stripped == StrStrip(reg_no)
         IN IF MatchesRegistrationPattern(stripped) THEN Returned(StrUpper(stripped))
            ELSE IF StrIsDigit(stripped)
                 THEN Returned(StrUpper(<<"T", "S">> \o ZFill(stripped, zfill_width)))
            ELSE IF ~(StartsWith(stripped, <<"T", "S">>) \/ StartsWith(stripped, <<"T", "G">>))
                 THEN Raised("Invalid registration number format")
            ELSE Returned(StrUpper(stripped))

\* _clean_name
CleanName(name) == IF name = <<>> THEN <<>> ELSE StrTitle(CollapseSpaces(StrStrip(name)))

\* category_mapping, as pairs of key and value
CategoryMapping ==
    { <<<<"B", "P", "H", "A", "R", "M">>, <<"B", "P", "h", "a", "r", "m">>>>, <<<<"B", ".", "P", "H", "A", "R", "M">>, <<"B", "P", "h", "a", "r", "m">>>>, <<<<"B", " ", "P", "H", "A", "R", "M">>, <<"B", "P", "h", "a", "r", "m">>>>,
      <<<<"D", "P", "H", "A", "R", "M">>, <<"D", "P", "h", "a", "r", "m">>>>, <<<<"D", ".", "P", "H", "A", "R", "M">>, <<"D", "P", "h", "a", "r", "m">>>>, <<<<"D", " ", "P", "H", "A", "R", "M">>, <<"D", "P", "h", "a", "r", "m">>>>,
      <<<<"P", "H", "A", "R", "M", "D">>, <<"P", "h", "a", "r", "m", "D">>>>, <<<<"P", "H", "A", "R", "M", ".", "D">>, <<"P", "h", "a", "r", "m", "D">>>>, <<<<"P", "H", "A", "R", "M", " ", "D">>, <<"P", "h", "a", "r", "m", "D">>>>,
      <<<<"M", "P", "H", "A", "R", "M">>, <<"M", "P", "h", "a", "r", "m">>>>, <<<<"M", ".", "P", "H", "A", "R", "M">>, <<"M", "P", "h", "a", "r", "m">>>>, <<<<"M", " ", "P", "H", "A", "R", "M">>, <<"M", "P", "h", "a", "r", "m">>>>,
      <<<<"Q", "P">>, <<"Q", "P">>>>, <<<<"Q", "C">>, <<"Q", "C">>>> }

\* _clean_category
CleanCategory(category) ==
    IF category = <<>> THEN <<>>
    ELSE LET u == StrUpper(StrStrip(category))
         IN IF \E p \in CategoryMapping : p[1] = u
            THEN (CHOOSE p \in CategoryMapping : p[1] = u)[2]
            ELSE u

\* PharmacistRecord(...): the object, or the exception of __post_init__.
NewPharmacistRecord(serial_number, registration_number, name, father_name, category) ==
    LET reg == CleanRegistrationNumber(registration_number)
    IN IF reg.raised THEN Raised(reg.error)
       ELSE Returned([type |-> "PharmacistRecord",
                      serial_number |-> serial_number,
                      registration_number |-> reg.value,
                      name |-> CleanName(name),
                      father_name |-> CleanName(father_name),
                      category |-> CleanCategory(category)])

\* to_basic_dict
ToBasicDict(record) == [record EXCEPT !.type = "dict"]

\* from_basic_dict(data): every field is read with data.get, which a dict
\* has and a PharmacistRecord has not.
FromBasicDict(data) ==
    IF data.type # "dict"
    THEN Raised("AttributeError: 'PharmacistRecord' object has no attribute 'get'")
    ELSE NewPharmacistRecord(data.serial_number, data.registration_number, data.name,
                             data.father_name, data.category)

(***************************************************************************)
(* The listing table and its parsing                                       *)
(* (src/tgpc/extractors/pharmacist_extractor.py 295-336) and               *)
(* TGPCEngine.extract_basic_records (src/tgpc/core/engine.py 50-65).  A    *)
(* row is the sequence of the texts of its td cells as get_text(strip=True)*)
(* gives them; a header row of th cells has none.                          *)
(***************************************************************************)
MaxRows == 2
min_cells == 5

\* int(serial_text) if serial_text.isdigit() else serial_text
SerialNumber(serial_text) ==
    IF StrIsDigit(serial_text)
    THEN [kind |-> "int", int |-> StrInt(serial_text), text |-> <<>>]
    ELSE [kind |-> "str", int |-> 0, text |-> serial_text]

\* The body of the loop of _parse_basic_table for one row: the records so
\* far with the record of the row appended, unless the row is short or the
\* construction raises.
ParseBasicRow(records, cells) ==
    IF Len(cells) < min_cells THEN records
    ELSE LET record == NewPharmacistRecord(SerialNumber(cells[1]), cells[2], cells[3],
                                           cells[4], cells[5])
         IN IF record.raised THEN records ELSE Append(records, record.value)

RECURSIVE ParseBasicRows(_, _)
ParseBasicRows(records, rows) ==
    IF rows = <<>> THEN records
    ELSE ParseBasicRows(ParseBasicRow(records, Head(rows)), Tail(rows))

\* _parse_basic_table: the first row is skipped as the header.
ParseBasicTable(rows) == IF rows = <<>> THEN <<>> ELSE ParseBasicRows(<<>>, Tail(rows))

\* PharmacistExtractor.extract_basic_records
ExtractorExtractBasicRecords(table, fault) ==
    IF fault THEN Raised("NetworkException") ELSE Returned(ParseBasicTable(table))

\* The conversion loop of TGPCEngine.extract_basic_records.
RECURSIVE ConvertRawRecords(_, _)
ConvertRawRecords(records, raw_records) ==
    IF raw_records = <<>> THEN records
    ELSE LET record == FromBasicDict(Head(raw_records))
         IN ConvertRawRecords(IF record.raised THEN records ELSE Append(records, record.value),
                              Tail(raw_records))

\* TGPCEngine.extract_basic_records
ExtractBasicRecords(table, fault) ==
    LET raw_records == ExtractorExtractBasicRecords(table, fault)
    IN IF raw_records.raised THEN raw_records
       ELSE Returned(ConvertRawRecords(<<>>, raw_records.value))

\* The rows a listing can hold.
HeaderRow == <<>>
ListingRows ==
    { <<<<"1">>, <<"T", "G", "0", "0", "0", "0", "0", "1">>, <<"a", "s", "h", "a", " ", " ", "r", "a", "o">>, <<"K", " ", "R", "A", "O">>, <<"b", ".", "p", "h", "a", "r", "m">>>>,
      <<<<"0", "0", "2">>, <<"t", "s", "0", "0", "0", "0", "0", "2">>, <<"R", "A", "V", "I">>, <<>>, <<"Q", "P">>>>,
      <<<<"3">>, <<"7">>, <<"M", "i", "n", "a">>, <<"D", "e", "v">>, <<"O", "t", "h", "e", "r">>>>,
      <<<<"x">>, <<"T", "S", "B", "1", "2">>, <<"L", "i">>, <<"W", "u">>, <<"D", " ", "P", "H", "A", "R", "M">>>>,
      <<<<"4">>, <<"A", "P", "0", "0", "0", "0", "0", "4">>, <<"S", "a", "m">>, <<"R", "o", "y">>, <<"Q", "C">>>>,
      <<<<"5">>, <<>>, <<"T", "o", "m">>, <<"R", "a", "y">>, <<"Q", "C">>>>,
      <<<<"6">>, <<"T", "G", "0", "0", "0", "0", "0", "6">>, <<"A", "n", "n">>, <<"L", "e", "e">>>>,
      <<<<"7">>, <<"T", "G", "0", "0", "0", "0", "0", "7">>, <<"E", "v", "e">>, <<"P", "o", "e">>, <<"M", "P", "H", "A", "R", "M">>, <<"e", "x", "t", "r", "a">>>> }
Listing == { <<HeaderRow>> \o rows : rows \in UNION { [1..n -> ListingRows] : n \in 0..MaxRows } }

EngineIdle ==
    /\ en_table = <<>>
    /\ en_fault = FALSE
    /\ en_pc = "idle"
    /\ en_out = Returned(<<>>)

EngineInit ==
    /\ en_table \in Listing \cup {<<>>}
    /\ en_fault \in BOOLEAN
    /\ en_pc = "idle"
    /\ en_out = Returned(<<>>)

\* One call of TGPCEngine.extract_basic_records.
EngineExtract ==
    /\ en_pc = "idle"
    /\ en_out' = ExtractBasicRecords(en_table, en_fault)
    /\ en_pc' = "returned"
    /\ UNCHANGED <<en_table, en_fault>>
    /\ Frame({"engine"})

\* The caller has the list; the site may serve another listing next time.
EngineConsumed ==
    /\ en_pc = "returned"
    /\ en_pc' = "idle"
    /\ en_table' \in Listing \cup {<<>>}
    /\ en_fault' \in BOOLEAN
    /\ UNCHANGED en_out
    /\ Frame({"engine"})

(***************************************************************************)
(* Total-count extraction: PharmacistExtractor.extract_total_count         *)
(* (src/tgpc/extractors/pharmacist_extractor.py 211-236),                  *)
(* Scraper.get_total_count (src/tgpc/scraper.py 112-125) and               *)
(* Reader.get_total_pharmacist_count (src/reader.py 108-126), all on the   *)
(* rows of the table found in the page.                                    *)
(***************************************************************************)
MaxCountRows == 4

\* [row for row in table.find_all('tr') if row.find_all('td')]
RECURSIVE DataRows(_)
DataRows(rows) ==
    IF rows = <<>> THEN <<>>
    ELSE IF Head(rows) = <<>> THEN DataRows(Tail(rows))
    ELSE <<Head(rows)>> \o DataRows(Tail(rows))

\* What int() accepts of the texts a cell can hold here: digits, with or
\* without a sign.
IntParses(text) ==
    \/ StrIsDigit(text)
    \/ Len(text) > 1 /\ text[1] \in {"-", "+"} /\ StrIsDigit(Tail(text))

IntOf(text) ==
    IF StrIsDigit(text) THEN StrInt(text)
    ELSE IF text[1] = "-" THEN 0 - StrInt(Tail(text)) ELSE StrInt(Tail(text))

\* The loop of the extractor and of the reader: int(first_col) of the rows
\* whose first cell isdigit().
RECURSIVE DigitSerials(_)
DigitSerials(data_rows) ==
    IF data_rows = <<>> THEN <<>>
    ELSE (IF StrIsDigit(Head(data_rows)[1]) THEN <<StrInt(Head(data_rows)[1])>> ELSE <<>>)
         \o DigitSerials(Tail(data_rows))

\* The loop of the scraper: int(text) of the first cell, rows on which it
\* raises ValueError passed over.
RECURSIVE ParsedSerials(_)
ParsedSerials(data_rows) ==
    IF data_rows = <<>> THEN <<>>
    ELSE (IF IntParses(Head(data_rows)[1]) THEN <<IntOf(Head(data_rows)[1])>> ELSE <<>>)
         \o ParsedSerials(Tail(data_rows))

ListCount(serial_numbers) == Len(serial_numbers)

\* len(set(serial_numbers))
DistinctCount(serial_numbers) == Cardinality(Range(serial_numbers))

\* PharmacistExtractor.extract_total_count, from the table on.
ExtractTotalCount(table) ==
    LET data_rows == DataRows(table)
        serial_numbers == DigitSerials(data_rows)
    IN IF data_rows = <<>> THEN [raised |-> TRUE, error |-> "ParsingException", value |-> 0]
       ELSE IF serial_numbers # <<>>
            THEN [raised |-> FALSE, error |-> "", value |-> DistinctCount(serial_numbers)]
       ELSE [raised |-> FALSE, error |-> "", value |-> Len(data_rows)]

\* Scraper.get_total_count, from the table on.
GetTotalCount(table) ==
    LET rows == DataRows(table)
        serials == ParsedSerials(rows)
    IN [raised |-> FALSE, error |-> "",
        value |-> IF serials # <<>> THEN DistinctCount(serials) ELSE Len(rows)]

\* Reader.get_total_pharmacist_count, from the table on; error "None" stands
\* for the None it returns when there is no data row.
GetTotalPharmacistCount(table) ==
    LET data_rows == DataRows(table)
        serial_numbers == DigitSerials(data_rows)
    IN IF data_rows = <<>> THEN [raised |-> FALSE, error |-> "None", value |-> 0]
       ELSE IF serial_numbers # <<>>
            THEN [raised |-> FALSE, error |-> "", value |-> DistinctCount(serial_numbers)]
       ELSE [raised |-> FALSE, error |-> "", value |-> Len(data_rows)]

\* The rows of the counted tables: a header row, and rows known by their
\* first cell.
CountRows == { <<>>, <<<<"1">>>>, <<<<"0", "1">>>>, <<<<"2">>>>, <<<<"3">>>>, <<<<"x">>>>, <<<<"-", "1">>>>, <<<<>>>> }
CountTables == UNION { [1..n -> CountRows] : n \in 0..MaxCountRows }
NoCount == [by |-> "none", raised |-> FALSE, error |-> "", value |-> 0]
Counted(by, out) == [by |-> by, raised |-> out.raised, error |-> out.error, value |-> out.value]

CountIdle ==
    /\ ct_table = <<>>
    /\ ct_pc = "idle"
    /\ ct_out = NoCount

CountInit ==
    /\ ct_table \in CountTables
    /\ ct_pc = "idle"
    /\ ct_out = NoCount

ExtractorCount ==
    /\ ct_pc = "idle"
    /\ ct_out' = Counted("extractor", ExtractTotalCount(ct_table))
    /\ ct_pc' = "returned"
    /\ UNCHANGED ct_table
    /\ Frame({"count"})

ScraperCount ==
    /\ ct_pc = "idle"
    /\ ct_out' = Counted("scraper", GetTotalCount(ct_table))
    /\ ct_pc' = "returned"
    /\ UNCHANGED ct_table
    /\ Frame({"count"})

ReaderCount ==
    /\ ct_pc = "idle"
    /\ ct_out' = Counted("reader", GetTotalPharmacistCount(ct_table))
    /\ ct_pc' = "returned"
    /\ UNCHANGED ct_table
    /\ Frame({"count"})

\* The caller has the count.
CountConsumed ==
    /\ ct_pc = "returned"
    /\ ct_pc' = "idle"
    /\ UNCHANGED <<ct_table, ct_out>>
    /\ Frame({"count"})

(***************************************************************************)
(* Parsing of the basic listing by the plain-record implementations:       *)
(* Reader.fetch_basic_records (src/reader.py 148-175), which builds        *)
(* dictionaries, and Scraper.extract_basic_records                         *)
(* (src/tgpc/scraper.py 130-159), which builds the dataclass of            *)
(* scraper.py; neither cleans a field.                                     *)
(***************************************************************************)
HasMoreThanBasicCells(cells) == Len(cells) > min_cells

\* not (len(cells) < 5)
HasBasicCells(cells) == ~(Len(cells) < min_cells)

\* The dictionary built by the reader for one row.
ReaderRecord(cells) ==
    [type |-> "dict",
     serial_number |-> SerialNumber(cells[1]),
     registration_number |-> cells[2],
     name |-> cells[3],
     father_name |-> cells[4],
     category |-> cells[5]]

\* int(text) if text.isdigit() else None
ScraperSerialNumber(serial_text) ==
    IF StrIsDigit(serial_text)
    THEN [kind |-> "int", int |-> StrInt(serial_text), text |-> <<>>]
    ELSE [kind |-> "None", int |-> 0, text |-> <<>>]

\* The dataclass instance built by the scraper for one row.
ScraperRecord(cells) ==
    [type |-> "scraper.PharmacistRecord",
     serial_number |-> ScraperSerialNumber(cells[1]),
     registration_number |-> cells[2],
     name |-> cells[3],
     father_name |-> cells[4],
     category |-> cells[5]]

RECURSIVE ReaderRows(_)
ReaderRows(rows) ==
    IF rows = <<>> THEN <<>>
    ELSE (IF HasBasicCells(Head(rows)) THEN <<ReaderRecord(Head(rows))>> ELSE <<>>)
         \o ReaderRows(Tail(rows))

\* Reader.fetch_basic_records, from the table on: rows[1:] are parsed.
FetchBasicRecords(table) == IF table = <<>> THEN <<>> ELSE ReaderRows(Tail(table))

RECURSIVE ScraperRows(_)
ScraperRows(rows) ==
    IF rows = <<>> THEN <<>>
    ELSE (IF HasBasicCells(Head(rows)) THEN <<ScraperRecord(Head(rows))>> ELSE <<>>)
         \o ScraperRows(Tail(rows))

\* Scraper.extract_basic_records, from the table on: find_all('tr')[1:].
ScraperExtractBasicRecords(table) == IF table = <<>> THEN <<>> ELSE ScraperRows(Tail(table))

\* The tables parsed: a header row of th cells or of td cells, then up to
\* MaxRows rows; and the table without rows.
CellHeaderRow == <<<<"S", ".", "N", "o">>, <<"R", "e", "g", " ", "N", "o">>, <<"N", "a", "m", "e">>, <<"F", "a", "t", "h", "e", "r", " ", "N", "a", "m", "e">>, <<"C", "a", "t", "e", "g", "o", "r", "y">>>>
ParsedTables ==
    {<<>>} \cup Listing
           \cup { <<CellHeaderRow>> \o rows : rows \in UNION { [1..n -> ListingRows] : n \in 0..MaxRows } }
NoParse == [by |-> "none", records |-> <<>>]

ParseIdle ==
    /\ pb_table = <<>>
    /\ pb_pc = "idle"
    /\ pb_out = NoParse

ParseInit ==
    /\ pb_table \in ParsedTables
    /\ pb_pc = "idle"
    /\ pb_out = NoParse

ReaderFetch ==
    /\ pb_pc = "idle"
    /\ pb_out' = [by |-> "reader", records |-> FetchBasicRecords(pb_table)]
    /\ pb_pc' = "returned"
    /\ UNCHANGED pb_table
    /\ Frame({"parse"})

ScraperExtract ==
    /\ pb_pc = "idle"
    /\ pb_out' = [by |-> "scraper", records |-> ScraperExtractBasicRecords(pb_table)]
    /\ pb_pc' = "returned"
    /\ UNCHANGED pb_table
    /\ Frame({"parse"})

\* The caller has the records.
ParseConsumed ==
    /\ pb_pc = "returned"
    /\ pb_pc' = "idle"
    /\ UNCHANGED <<pb_table, pb_out>>
    /\ Frame({"parse"})

(***************************************************************************)
(* Constructing a PharmacistRecord from a registration number text         *)
(* (src/tgpc/models/pharmacist.py 116-148), and constructing another from  *)
(* the number of the first, as from_dict(to_dict()) does.                  *)
(***************************************************************************)
MaxRegLen == 3
RegChars == {"T", "S", "G", "t", "s", "A", "x", "0", "7", " "}
RegInputs == UNION { [1..n -> RegChars] : n \in 0..MaxRegLen }

RecordIdle ==
    /\ pr_input = <<>>
    /\ pr_pc = "idle"
    /\ pr_out = Returned(<<>>)
    /\ pr_again = Returned(<<>>)

RecordInit ==
    /\ pr_input \in RegInputs
    /\ pr_pc = "idle"
    /\ pr_out = Returned(<<>>)
    /\ pr_again = Returned(<<>>)

\* PharmacistRecord(registration_number=pr_input, ...)
ConstructRecord ==
    /\ pr_pc = "idle"
    /\ pr_out' = CleanRegistrationNumber(pr_input)
    /\ pr_pc' = "constructed"
    /\ UNCHANGED <<pr_input, pr_again>>
    /\ Frame({"record"})

\* PharmacistRecord.from_dict(record.to_dict())
ReconstructRecord ==
    /\ pr_pc = "constructed"
    /\ ~pr_out.raised
    /\ pr_again' = CleanRegistrationNumber(pr_out.value)
    /\ pr_pc' = "again"
    /\ UNCHANGED <<pr_input, pr_out>>
    /\ Frame({"record"})

\* The records are dropped.
RecordDropped ==
    /\ pr_pc \in {"constructed", "again"}
    /\ UNCHANGED pr_input
    /\ pr_pc' = "idle"
    /\ pr_out' = Returned(<<>>)
    /\ pr_again' = Returned(<<>>)
    /\ Frame({"record"})

(***************************************************************************)
(* SecureBackupManager (src/tgpc/automation/daily_updater.py 150-239):     *)
(* create_backup copies the dataset file to rx_backup_<timestamp>.json and *)
(* writes "<digest>  <filename>" next to it; verify_backup compares the    *)
(* stored digest with the digest of the backup as it is now.  A file is a  *)
(* sequence of bytes; the digest file is the sequence of its words.  The   *)
(* environment may alter or remove either file between two calls.          *)
(***************************************************************************)
MaxBytes == 2
ByteValues == {0, 1}
FileContents == UNION { [1..n -> ByteValues] : n \in 0..MaxBytes }
BackupStamps == {"20240101_020000", "20240101_020001"}
NoStamp == "none"

\* _calculate_checksum: the SHA-256 digest of the bytes, modelled as a
\* number that differs for any two of the modelled contents.
ChecksumConstant(data) == 1
RECURSIVE Checksum(_)
Checksum(data) ==
    IF data = <<>> THEN 1
    ELSE 3 * Checksum(SubSeq(data, 1, Len(data) - 1)) + data[Len(data)] + 1

\* f"{checksum}  {backup_filename}\n", as the words of the line
DigestLine(checksum, stamp) == <<checksum, stamp>>
AbsentDigest == [exists |-> FALSE, words |-> <<>>]
DigestFile(words) == [exists |-> TRUE, words |-> words]

\* create_backup(source_file) at the second `stamp`
CreateBackupResult(source, stamp, files, digests) ==
    IF ~source.exists
    THEN [result |-> Raised("FileNotFoundError"), files |-> files,
          digests |-> digests]
    ELSE LET copied == [files EXCEPT ![stamp] = source]
             checksum == Checksum(copied[stamp].data)
         IN  [result |-> Returned(stamp),
              files |-> copied,
              digests |-> [digests EXCEPT
                  ![stamp] = DigestFile(DigestLine(checksum, stamp))]]

\* verify_backup(backup_path)
VerifyBackupResult(stamp, files, digests) ==
    IF ~digests[stamp].exists THEN FALSE
    ELSE IF digests[stamp].words = <<>> THEN FALSE      \* split()[0] raises
    ELSE IF ~files[stamp].exists THEN FALSE             \* open() raises
    ELSE digests[stamp].words[1] = Checksum(files[stamp].data)

NotMade == [made |-> FALSE, file |-> AbsentData, digest |-> AbsentDigest]

BackupIdle ==
    /\ bk_source = AbsentData
    /\ bk_files = [s \in BackupStamps |-> AbsentData]
    /\ bk_digests = [s \in BackupStamps |-> AbsentDigest]
    /\ bk_made = [s \in BackupStamps |-> NotMade]
    /\ bk_pc = "idle"
    /\ bk_arg = NoStamp
    /\ bk_out = FALSE

BackupInit ==
    /\ bk_source \in {AbsentData} \cup
                     { [exists |-> TRUE, data |-> d] : d \in FileContents }
    /\ bk_files = [s \in BackupStamps |-> AbsentData]
    /\ bk_digests = [s \in BackupStamps |-> AbsentDigest]
    /\ bk_made = [s \in BackupStamps |-> NotMade]
    /\ bk_pc = "idle"
    /\ bk_arg = NoStamp
    /\ bk_out = FALSE

CreateBackup ==
    /\ bk_pc = "idle"
    /\ \E stamp \in BackupStamps :
         \E run \in { CreateBackupResult(bk_source, stamp, bk_files,
                                         bk_digests) } :
            /\ bk_files' = run.files
            /\ bk_digests' = run.digests
            /\ bk_made' = IF run.result.raised THEN bk_made
                          ELSE [bk_made EXCEPT ![stamp] =
                                   [made |-> TRUE, file |-> run.files[stamp],
                                    digest |-> run.digests[stamp]]]
            /\ bk_arg' = stamp
            /\ bk_pc' = IF run.result.raised THEN "raised" ELSE "created"
    /\ UNCHANGED <<bk_source, bk_out>>
    /\ Frame({"backup"})

VerifyBackup ==
    /\ bk_pc = "idle"
    /\ \E stamp \in BackupStamps :
         /\ bk_arg' = stamp
         /\ bk_out' = VerifyBackupResult(stamp, bk_files, bk_digests)
    /\ bk_pc' = "verified"
    /\ UNCHANGED <<bk_source, bk_files, bk_digests, bk_made>>
    /\ Frame({"backup"})

\* The caller takes the result.
BackupReturned ==
    /\ bk_pc \in {"created", "raised", "verified"}
    /\ bk_pc' = "idle"
    /\ bk_arg' = NoStamp
    /\ bk_out' = FALSE
    /\ UNCHANGED <<bk_source, bk_files, bk_digests, bk_made>>
    /\ Frame({"backup"})

\* Outside the manager: one byte of a backup file is changed.
ByteChanged ==
    /\ bk_pc = "idle"
    /\ \E stamp \in BackupStamps :
         /\ bk_files[stamp].exists
         /\ \E i \in 1..Len(bk_files[stamp].data) :
              bk_files' = [bk_files EXCEPT
                  ![stamp].data[i] = 1 - bk_files[stamp].data[i]]
    /\ UNCHANGED <<bk_source, bk_digests, bk_made, bk_pc, bk_arg, bk_out>>
    /\ Frame({"backup"})

\* Outside the manager: a backup file is removed.
BackupRemoved ==
    /\ bk_pc = "idle"
    /\ \E stamp \in BackupStamps :
         /\ bk_files[stamp].exists
         /\ bk_files' = [bk_files EXCEPT ![stamp] = AbsentData]
    /\ UNCHANGED <<bk_source, bk_digests, bk_made, bk_pc, bk_arg, bk_out>>
    /\ Frame({"backup"})

\* Outside the manager: a digest file is removed.
DigestRemoved ==
    /\ bk_pc = "idle"
    /\ \E stamp \in BackupStamps :
         /\ bk_digests[stamp].exists
         /\ bk_digests' = [bk_digests EXCEPT ![stamp] = AbsentDigest]
    /\ UNCHANGED <<bk_source, bk_files, bk_made, bk_pc, bk_arg, bk_out>>
    /\ Frame({"backup"})

\* Outside the manager: a digest file is emptied, or rewritten with the
\* digest of the backup as it is now.
DigestRewritten ==
    /\ bk_pc = "idle"
    /\ \E stamp \in BackupStamps :
         /\ bk_digests[stamp].exists
         /\ bk_files[stamp].exists
         /\ \E words \in { <<>>, DigestLine(Checksum(bk_files[stamp].data),
                                            stamp) } :
              /\ words # bk_digests[stamp].words
              /\ bk_digests' = [bk_digests EXCEPT
                                   ![stamp] = DigestFile(words)]
    /\ UNCHANGED <<bk_source, bk_files, bk_made, bk_pc, bk_arg, bk_out>>
    /\ Frame({"backup"})

(***************************************************************************)
(* GET /api/search (src/api/app.py 20-37) over PharmacistDB.search         *)
(* (src/tgpc/database/schema.py 72-85).  The mirror is a set of rows with  *)
(* distinct serial numbers; a request carries the texts of its q and limit *)
(* parameters, or NoParam for a parameter that is not given.               *)
(***************************************************************************)
MaxMirror == 3
default_limit == 100
NoParam == <<"absent">>
MirrorNames == << <<"a", "b", "c">>, <<"A", "B", "x">>, <<"x", "y", "z">> >>
MirrorRow(serial) ==
    [serial_number |-> serial,
     registration_number |-> <<"T", IF serial % 2 = 0 THEN "G" ELSE "S",
                               DigitChars[(serial % 10) + 1]>>,
     name |-> MirrorNames[(serial % Len(MirrorNames)) + 1]]
Mirrors == { { MirrorRow(s) : s \in serials } : serials \in SUBSET (1..MaxMirror) }
QueryTexts == { NoParam, <<>>, <<"a">>, <<"a", "b">>, <<"A", "B">>, <<"T", "S">>, <<"t", "s">>, <<"%", "%">>,
                <<"b", "_">>, <<"z", "z">> }
LimitTexts == { NoParam, <<"1">>, <<"2">>, <<"0">>, <<"-", "1">>, <<"x">> }

\* request.args.get(name, default); int() of the default 100 is 100
ArgsGet(param, default) == IF param = NoParam THEN default ELSE param

\* int(value) of a parameter text
IntOfParam(value) ==
    IF StrIsDigit(value) THEN Returned(StrInt(value))
    ELSE IF Len(value) > 1 /\ value[1] = "-" /\ StrIsDigit(Tail(value))
         THEN Returned(0 - StrInt(Tail(value)))
    ELSE Raised("ValueError")

\* text LIKE pattern in SQLite: % matches any run of characters, _ any one
\* character, and letters match without regard to case.
RECURSIVE Like(_, _)
Like(text, pattern) ==
    IF pattern = <<>> THEN text = <<>>
    ELSE IF pattern[1] = "%"
         THEN \/ Like(text, Tail(pattern))
              \/ text # <<>> /\ Like(Tail(text), pattern)
    ELSE IF pattern[1] = "_"
         THEN text # <<>> /\ Like(Tail(text), Tail(pattern))
    ELSE /\ text # <<>>
         /\ UpperChar(text[1]) = UpperChar(pattern[1])
         /\ Like(Tail(text), Tail(pattern))

\* ORDER BY serial_number DESC
RECURSIVE OrderBySerialDesc(_)
OrderBySerialDesc(rows) ==
    IF rows = {} THEN <<>>
    ELSE LET top == CHOOSE r \in rows :
                        \A o \in rows : o.serial_number <= r.serial_number
         IN  <<top>> \o OrderBySerialDesc(rows \ {top})

\* LIMIT n: a negative n is no limit
SqlLimit(rows, n) ==
    IF n < 0 \/ n >= Len(rows) THEN rows ELSE SubSeq(rows, 1, n)

\* PharmacistDB.search(query, limit)
DbSearch(mirror, query, limit) ==
    LET search_pattern == <<"%">> \o query \o <<"%">>
        matching == { r \in mirror :
                        \/ Like(r.name, search_pattern)
                        \/ Like(r.registration_number, search_pattern) }
    IN  SqlLimit(OrderBySerialDesc(matching), limit)

SearchAnswer(status, results, opened) ==
    [status |-> status, count |-> Len(results), results |-> results,
     opened |-> opened]

\* search(): the handler of GET /api/search
SearchHandler(mirror, q, limit_text) ==
    LET query == ArgsGet(q, <<>>)
        limit == IF limit_text = NoParam THEN Returned(default_limit)
                 ELSE IntOfParam(limit_text)
    IN  IF limit.raised THEN SearchAnswer(500, <<>>, 0)
        ELSE IF query = <<>> \/ Len(query) < 2 THEN SearchAnswer(400, <<>>, 0)
        ELSE SearchAnswer(200, DbSearch(mirror, query, limit.value), 1)

NoAnswer == SearchAnswer(0, <<>>, 0)

SearchIdle ==
    /\ sr_mirror = {}
    /\ sr_q = NoParam
    /\ sr_limit = NoParam
    /\ sr_pc = "idle"
    /\ sr_out = NoAnswer

SearchInit ==
    /\ sr_mirror \in Mirrors
    /\ sr_q \in QueryTexts
    /\ sr_limit \in LimitTexts
    /\ sr_pc = "idle"
    /\ sr_out = NoAnswer

SearchRequest ==
    /\ sr_pc = "idle"
    /\ sr_out' = SearchHandler(sr_mirror, sr_q, sr_limit)
    /\ sr_pc' = "answered"
    /\ UNCHANGED <<sr_mirror, sr_q, sr_limit>>
    /\ Frame({"search"})

\* The client takes the answer and sends another request.
SearchAnswered ==
    /\ sr_pc = "answered"
    /\ sr_q' \in QueryTexts
    /\ sr_limit' \in LimitTexts
    /\ sr_pc' = "idle"
    /\ sr_out' = NoAnswer
    /\ UNCHANGED sr_mirror
    /\ Frame({"search"})

(***************************************************************************)
(* The standalone updater (src/scripts/standalone-updater.py 44-162).  The *)
(* dataset file data/rx.json is a version number in the work tree, in the  *)
(* index and in the last commit (0: no such file); the outcome of each git *)
(* command and of run_daily_update() is an input of the run.               *)
(***************************************************************************)
MaxVersions == 2
Versions == 0..MaxVersions
UpdateOutcomes == {"success", "failed", "exception"}
NotRun == "none"

\* check_git_changes(): git diff --quiet data/rx.json compares the work tree
\* with the index; an untracked file is no change; an error running git is
\* no change.
CheckGitChanges(work, index, diff_raises) ==
    IF diff_raises THEN FALSE
    ELSE index # 0 /\ work # index

StandaloneRun(exit, pull, update, changed, add, commit, push, git) ==
    [exit |-> exit, pull |-> pull, update |-> update, changed |-> changed,
     add |-> add, commit |-> commit, push |-> push, git |-> git]

Step(ok) == IF ok THEN "ok" ELSE "failed"

\* main(), from a repository state git = [root, head, index, work, remote];
\* git commit fails when nothing is staged.
Main(git, pull_ok, update, written, diff_raises, add_ok, commit_ok, push_ok) ==
    IF ~git.root
    THEN StandaloneRun(1, NotRun, NotRun, NotRun, NotRun, NotRun, NotRun, git)
    ELSE IF update # "success"
    THEN StandaloneRun(1, Step(pull_ok), update, NotRun, NotRun, NotRun,
                       NotRun, git)
    ELSE LET updated == [git EXCEPT !.work = written]
             changed == CheckGitChanges(updated.work, updated.index,
                                        diff_raises)
             staged == [updated EXCEPT !.index = updated.work]
             committed == [staged EXCEPT !.head = staged.index]
             pushed == [committed EXCEPT !.remote = committed.head]
         IN  IF ~changed
             THEN StandaloneRun(0, Step(pull_ok), update, "same", NotRun,
                                NotRun, NotRun, updated)
             ELSE IF ~add_ok
             THEN StandaloneRun(1, Step(pull_ok), update, "changed",
                                "failed", NotRun, NotRun, updated)
             ELSE IF ~commit_ok \/ staged.index = staged.head
             THEN StandaloneRun(1, Step(pull_ok), update, "changed", "ok",
                                "failed", NotRun, staged)
             ELSE IF ~push_ok
             THEN StandaloneRun(1, Step(pull_ok), update, "changed", "ok",
                                "ok", "failed", committed)
             ELSE StandaloneRun(0, Step(pull_ok), update, "changed", "ok",
                                "ok", "ok", pushed)

CleanRepository(root, version) ==
    [root |-> root, head |-> version, index |-> version, work |-> version,
     remote |-> version]
NoRun == StandaloneRun(0, NotRun, NotRun, NotRun, NotRun, NotRun, NotRun,
                       CleanRepository(FALSE, 0))

StandaloneIdle ==
    /\ su_git = CleanRepository(FALSE, 0)
    /\ su_pc = "idle"
    /\ su_out = NoRun

StandaloneInit ==
    /\ su_git \in { CleanRepository(root, v) : root \in BOOLEAN, v \in Versions }
    /\ su_pc = "idle"
    /\ su_out = NoRun

StandaloneMain ==
    /\ su_pc = "idle"
    /\ \E pull_ok, diff_raises, add_ok, commit_ok, push_ok \in BOOLEAN :
         \E update \in UpdateOutcomes :
           \E written \in Versions \ {0} :
             \E run \in { Main(su_git, pull_ok, update, written, diff_raises,
                               add_ok, commit_ok, push_ok) } :
                /\ su_out' = [run EXCEPT !.git = su_git]
                /\ su_git' = run.git
    /\ su_pc' = "exited"
    /\ Frame({"standalone"})

\* The scheduler starts the script again.
StandaloneAgain ==
    /\ su_pc = "exited"
    /\ su_pc' = "idle"
    /\ su_out' = NoRun
    /\ UNCHANGED su_git
    /\ Frame({"standalone"})

(***************************************************************************)
(* The bulk detail fetcher (src/fetch_details.py 75-146): main() resumes   *)
(* from the output file, appends the details it fetches and calls          *)
(* save_progress every BATCH_SIZE results and at the end.  A file is       *)
(* absent, partly written or complete, and holds a number of records; each *)
(* statement of save_progress is a step, and the process may be            *)
(* interrupted or killed between any two steps.                            *)
(***************************************************************************)
MaxNew == 2
BATCH_SIZE == 100
NoSnapshot == [exists |-> FALSE, complete |-> FALSE, count |-> 0]
PartialSnapshot == [exists |-> TRUE, complete |-> FALSE, count |-> 0]
Snapshot(count) == [exists |-> TRUE, complete |-> TRUE, count |-> count]
ExistingCounts == {BATCH_SIZE - 2, BATCH_SIZE - 1, BATCH_SIZE}

\* load_existing_data(): the records of the output file, none if it is
\* absent or unreadable
FetcherLoadExistingData(file) ==
    IF file.exists /\ file.complete THEN file.count ELSE 0

FetchIdle ==
    /\ fd_output = NoSnapshot
    /\ fd_temp = NoSnapshot
    /\ fd_results = 0
    /\ fd_left = 0
    /\ fd_pc = "start"
    /\ fd_final = FALSE

FetchInit ==
    /\ fd_output \in {NoSnapshot} \cup { Snapshot(n) : n \in ExistingCounts }
    /\ fd_temp = NoSnapshot
    /\ fd_results = 0
    /\ fd_left \in 0..MaxNew
    /\ fd_pc = "start"
    /\ fd_final = FALSE

\* main(), lines 101-112
MainStarts ==
    /\ fd_pc = "start"
    /\ fd_results' = FetcherLoadExistingData(fd_output)
    /\ fd_pc' = "loop"
    /\ UNCHANGED <<fd_output, fd_temp, fd_left, fd_final>>
    /\ Frame({"fetch"})

\* One pass of the loop, lines 115-136, for a registration not yet processed
FetchOne ==
    /\ fd_pc = "loop"
    /\ fd_left > 0
    /\ fd_results < BATCH_SIZE + MaxNew
    /\ fd_left' = fd_left - 1
    /\ \E details \in BOOLEAN :
         /\ fd_results' = IF details THEN fd_results + 1 ELSE fd_results
         /\ fd_pc' = IF details /\ fd_results' % BATCH_SIZE = 0
                     THEN "save" ELSE "loop"
    /\ UNCHANGED <<fd_output, fd_temp, fd_final>>
    /\ Frame({"fetch"})

\* The loop ends or is interrupted: the finally block, lines 142-146
FinalSave ==
    /\ \/ fd_pc = "loop"
       \/ ~fd_final /\ fd_pc \in {"save", "opened", "written", "removed", "renamed"}
    /\ fd_final' = TRUE
    /\ fd_pc' = IF fd_results > 0 THEN "save" ELSE "done"
    /\ UNCHANGED <<fd_output, fd_temp, fd_results, fd_left>>
    /\ Frame({"fetch"})

\* save_progress, line 88: open(temp_file, 'w')
OpenTemp ==
    /\ fd_pc = "save"
    /\ fd_temp' = PartialSnapshot
    /\ fd_pc' = "opened"
    /\ UNCHANGED <<fd_output, fd_results, fd_left, fd_final>>
    /\ Frame({"fetch"})

\* save_progress, line 89: json.dump and close
WriteTemp ==
    /\ fd_pc = "opened"
    /\ fd_temp' = Snapshot(fd_results)
    /\ fd_pc' = "written"
    /\ UNCHANGED <<fd_output, fd_results, fd_left, fd_final>>
    /\ Frame({"fetch"})

\* save_progress, lines 92-94: os.remove(OUTPUT_FILE) if it exists
RemoveOutput ==
    /\ fd_pc = "written"
    /\ fd_output' = IF fd_output.exists THEN NoSnapshot ELSE fd_output
    /\ fd_pc' = "removed"
    /\ UNCHANGED <<fd_temp, fd_results, fd_left, fd_final>>
    /\ Frame({"fetch"})

\* save_progress, line 95: os.rename(temp_file, OUTPUT_FILE)
RenameTemp ==
    /\ fd_pc = "removed"
    /\ fd_output' = fd_temp
    /\ fd_temp' = NoSnapshot
    /\ fd_pc' = "renamed"
    /\ UNCHANGED <<fd_results, fd_left, fd_final>>
    /\ Frame({"fetch"})

\* save_progress returns
SaveReturns ==
    /\ fd_pc = "renamed"
    /\ fd_pc' = IF fd_final THEN "done" ELSE "loop"
    /\ UNCHANGED <<fd_output, fd_temp, fd_results, fd_left, fd_final>>
    /\ Frame({"fetch"})

\* The process is killed.
ProcessKilled ==
    /\ fd_pc \notin {"done", "dead"}
    /\ fd_pc' = "dead"
    /\ UNCHANGED <<fd_output, fd_temp, fd_results, fd_left, fd_final>>
    /\ Frame({"fetch"})

\* The script is run again on what the last run left.
FetchAgain ==
    /\ fd_pc \in {"done", "dead"}
    /\ fd_left' \in 0..MaxNew
    /\ fd_results' = 0
    /\ fd_final' = FALSE
    /\ fd_pc' = "start"
    /\ UNCHANGED <<fd_output, fd_temp>>
    /\ Frame({"fetch"})

(***************************************************************************)
(* The embedded mirror (src/tgpc/database/schema.py 26-70) and its bulk    *)
(* sync (src/tgpc/database/sync.py 7-43).  The table pharmacists declares  *)
(* serial_number UNIQUE and registration_number UNIQUE; a row is its       *)
(* serial number and registration number.                                  *)
(***************************************************************************)
MaxSerial == 2
MaxDataset == 2
TableRegs == {"TS000001", "TS000002"}
TableRows == [serial_number : 1..MaxSerial, registration_number : TableRegs]

\* The UNIQUE constraints of create_tables
TableConstraints(rows) ==
    \A r1, r2 \in rows :
        (\/ r1.serial_number = r2.serial_number
         \/ r1.registration_number = r2.registration_number) => r1 = r2

\* INSERT OR REPLACE: every row that conflicts with the new one on a unique
\* column is deleted, then the new row is inserted.
InsertPharmacist(rows, record) ==
    { r \in rows : /\ r.serial_number # record.serial_number
                   /\ r.registration_number # record.registration_number }
        \cup {record}

\* sync_json_to_db: insert_pharmacist for every record, in order
RECURSIVE SyncJsonToDb(_, _)
SyncJsonToDb(rows, records) ==
    IF records = <<>> THEN rows
    ELSE SyncJsonToDb(InsertPharmacist(rows, Head(records)), Tail(records))

JsonDatasets == UNION { [1..n -> TableRows] : n \in 0..MaxDataset }
NoCall == [kind |-> "none", record |-> <<>>, records |-> <<>>,
           before |-> {}]

MirrorIdle ==
    /\ db_rows = {}
    /\ db_call = NoCall

MirrorInit ==
    /\ db_rows = {}
    /\ db_call = NoCall

Upsert ==
    /\ \E record \in TableRows :
         /\ db_rows' = InsertPharmacist(db_rows, record)
         /\ db_call' = [kind |-> "upsert", record |-> record,
                        records |-> <<>>, before |-> db_rows]
    /\ Frame({"mirror"})

BulkSync ==
    /\ \E records \in JsonDatasets :
         /\ db_rows' = SyncJsonToDb(db_rows, records)
         /\ db_call' = [kind |-> "sync", record |-> <<>>,
                        records |-> records, before |-> db_rows]
    /\ Frame({"mirror"})

(***************************************************************************)
(* The HTTP API under concurrent requests (src/api/app.py 15-47): the      *)
(* module holds one PharmacistDB object, and every handler calls           *)
(* db.connect(), its query and db.close() on it (schema.py 10-24).  A      *)
(* connection is named after the request that opened it; 0 is db.conn      *)
(* before the first connect.  sqlite3 connections refuse calls from a      *)
(* thread other than the one that opened them, so requests served by       *)
(* threads fail where requests served by coroutines of one thread go on.   *)
(***************************************************************************)
MaxApiRequests == 2
ApiRequests == 1..MaxApiRequests
ApiKinds == {"search", "short_search", "stats"}
Workers == {"threads", "one_thread"}

\* A call on connection `conn` by request `r` is refused by sqlite3.
Refused(workers, open, conn, r) ==
    \/ workers = "threads" /\ conn # r
    \/ open[conn] = "closed"

ApiIdle ==
    /\ ap_workers = "threads"
    /\ ap_kind = [r \in ApiRequests |-> "stats"]
    /\ ap_pc = [r \in ApiRequests |-> "done"]
    /\ ap_conn = 0
    /\ ap_open = [r \in ApiRequests |-> "none"]
    /\ ap_ran = {}
    /\ ap_closed = {}

ApiInit ==
    /\ ap_workers \in Workers
    /\ ap_kind \in [ApiRequests -> ApiKinds]
    /\ ap_pc = [r \in ApiRequests |-> "start"]
    /\ ap_conn = 0
    /\ ap_open = [r \in ApiRequests |-> "none"]
    /\ ap_ran = {}
    /\ ap_closed = {}

\* search(), lines 23-27: the answer 400
AnswerBadRequest(r) ==
    /\ ap_pc[r] = "start"
    /\ ap_kind[r] = "short_search"
    /\ ap_pc' = [ap_pc EXCEPT ![r] = "done"]
    /\ UNCHANGED <<ap_workers, ap_kind, ap_conn, ap_open, ap_ran, ap_closed>>
    /\ Frame({"api"})

\* db.connect(): self.conn = sqlite3.connect(...)
DbConnect(r) ==
    /\ ap_pc[r] = "start"
    /\ ap_kind[r] # "short_search"
    /\ ap_conn' = r
    /\ ap_open' = [ap_open EXCEPT ![r] = "open"]
    /\ ap_pc' = [ap_pc EXCEPT ![r] = "connected"]
    /\ UNCHANGED <<ap_workers, ap_kind, ap_ran, ap_closed>>
    /\ Frame({"api"})

\* db.search(...) or db.get_stats(): self.conn.cursor() and the query
DbQuery(r) ==
    /\ ap_pc[r] = "connected"
    /\ IF Refused(ap_workers, ap_open, ap_conn, r)
       THEN /\ ap_pc' = [ap_pc EXCEPT ![r] = "failed"]
            /\ UNCHANGED ap_ran
       ELSE /\ ap_pc' = [ap_pc EXCEPT ![r] = "queried"]
            /\ ap_ran' = ap_ran \cup {<<r, ap_conn>>}
    /\ UNCHANGED <<ap_workers, ap_kind, ap_conn, ap_open, ap_closed>>
    /\ Frame({"api"})

\* db.close(): self.conn.close(); closing a closed connection of one's own
\* thread does nothing
DbClose(r) ==
    /\ ap_pc[r] = "queried"
    /\ IF ap_workers = "threads" /\ ap_conn # r
       THEN /\ ap_pc' = [ap_pc EXCEPT ![r] = "failed"]
            /\ UNCHANGED <<ap_open, ap_closed>>
       ELSE /\ ap_pc' = [ap_pc EXCEPT ![r] = "done"]
            /\ ap_open' = [ap_open EXCEPT ![ap_conn] = "closed"]
            /\ ap_closed' = ap_closed \cup {<<r, ap_conn>>}
    /\ UNCHANGED <<ap_workers, ap_kind, ap_conn, ap_ran>>
    /\ Frame({"api"})

(***************************************************************************)
(* rxsync.merge_records (src/rxsync.py 126-163).  A record is its          *)
(* registration number and its serial number; a fetched record may have an *)
(* empty registration number.                                              *)
(***************************************************************************)
MaxStoredLen == 2
MaxFetchedLen == 2
MergeRegs == {"TS000001", "TS000002"}
StoredRecords == [registration_number : MergeRegs, serial_number : 1..MaxSerial]
FetchedRecords ==
    [registration_number : MergeRegs \cup {""}, serial_number : 1..MaxSerial]

\* normalize_serial of an integer: (int(value), str(value)); the order of
\* these pairs is the order of the integers
NormalizeSerial(value) == value

\* list.sort(key=...): stable, by ascending key
RECURSIVE SortBySerial(_)
SortBySerial(records) ==
    IF records = <<>> THEN <<>>
    ELSE LET rest == SortBySerial(SubSeq(records, 1, Len(records) - 1))
             last == records[Len(records)]
             before == SelectSeq(rest, LAMBDA r :
                 NormalizeSerial(r.serial_number)
                     <= NormalizeSerial(last.serial_number))
             after == SelectSeq(rest, LAMBDA r :
                 NormalizeSerial(r.serial_number)
                     > NormalizeSerial(last.serial_number))
         IN  before \o <<last>> \o after

\* index_by_reg of line 139: the last position of each registration number
IndexByReg(existing) ==
    [reg \in { existing[i].registration_number : i \in 1..Len(existing) } |->
        CHOOSE i \in 1..Len(existing) :
            /\ existing[i].registration_number = reg
            /\ \A j \in (i + 1)..Len(existing) :
                   existing[j].registration_number # reg]

\* The loop of lines 144-160 over the fetched records from position k on
RECURSIVE MergeLoop(_, _, _)
MergeLoop(m, fetched, k) ==
    IF k > Len(fetched) THEN m
    ELSE LET record == fetched[k]
             reg_no == record.registration_number
         IN  IF reg_no = "" THEN MergeLoop(m, fetched, k + 1)
             ELSE IF reg_no \in DOMAIN m.index_by_reg
             THEN LET idx == m.index_by_reg[reg_no]
                      current == m.updated[idx]
                  IN  IF current # record
                      THEN MergeLoop(
                             [m EXCEPT !.updated[idx] = record,
                                       !.changed_records = Append(@, record)],
                             fetched, k + 1)
                      ELSE MergeLoop(m, fetched, k + 1)
             ELSE MergeLoop(
                    [updated |-> Append(m.updated, record),
                     new_records |-> Append(m.new_records, record),
                     changed_records |-> m.changed_records,
                     index_by_reg |-> m.index_by_reg
                                        @@ (reg_no :> Len(m.updated) + 1)],
                    fetched, k + 1)

\* merge_records(existing, fetched)
MergeRecords(existing, fetched) ==
    LET merged == MergeLoop([updated |-> existing, new_records |-> <<>>,
                             changed_records |-> <<>>,
                             index_by_reg |-> IndexByReg(existing)],
                            fetched, 1)
    IN  [updated |-> SortBySerial(merged.updated),
         new_records |-> merged.new_records,
         changed_records |-> merged.changed_records]

NoMerge == [updated |-> <<>>, new_records |-> <<>>, changed_records |-> <<>>]

MergeIdle ==
    /\ mg_existing = <<>>
    /\ mg_fetched = <<>>
    /\ mg_pc = "idle"
    /\ mg_first = NoMerge
    /\ mg_second = NoMerge

MergeInit ==
    /\ mg_existing \in BoundedSeqs(StoredRecords, MaxStoredLen)
    /\ mg_fetched \in BoundedSeqs(FetchedRecords, MaxFetchedLen)
    /\ mg_pc = "idle"
    /\ mg_first = NoMerge
    /\ mg_second = NoMerge

\* merge_records(existing, fetched)
MergeFirst ==
    /\ mg_pc = "idle"
    /\ mg_first' = MergeRecords(mg_existing, mg_fetched)
    /\ mg_pc' = "merged"
    /\ UNCHANGED <<mg_existing, mg_fetched, mg_second>>
    /\ Frame({"merge"})

\* merge_records(merged, fetched): the same fetched list once more
MergeSecond ==
    /\ mg_pc = "merged"
    /\ mg_second' = MergeRecords(mg_first.updated, mg_fetched)
    /\ mg_pc' = "again"
    /\ UNCHANGED <<mg_existing, mg_fetched, mg_first>>
    /\ Frame({"merge"})

\* The results are dropped.
MergeDropped ==
    /\ mg_pc \in {"merged", "again"}
    /\ mg_pc' = "idle"
    /\ mg_first' = NoMerge
    /\ mg_second' = NoMerge
    /\ UNCHANGED <<mg_existing, mg_fetched>>
    /\ Frame({"merge"})

(***************************************************************************)
(* Specifications.                                                         *)
(***************************************************************************)
\* Every component outside `used` is at rest.
IdleExcept(used) ==
    /\ IF "updater" \in used THEN TRUE ELSE rx_file = AbsentFile /\ UpdaterIdle
    /\ IF "validator" \in used THEN TRUE ELSE ValidatorIdle
    /\ IF "gate" \in used THEN TRUE ELSE GateIdle
    /\ IF "manager" \in used THEN TRUE ELSE m_file = AbsentData /\ ManagerIdle
    /\ IF "limiter" \in used THEN TRUE ELSE LimiterIdle
    /\ IF "simple" \in used THEN TRUE ELSE SimpleIdle
    /\ IF "request" \in used THEN TRUE ELSE RequestIdle
    /\ IF "scheduler" \in used THEN TRUE ELSE SchedulerIdle
    /\ IF "threads" \in used THEN TRUE ELSE ThreadsIdle
    /\ IF "detail" \in used THEN TRUE ELSE DetailIdle
    /\ IF "sync" \in used THEN TRUE ELSE SyncIdle
    /\ IF "engine" \in used THEN TRUE ELSE EngineIdle
    /\ IF "count" \in used THEN TRUE ELSE CountIdle
    /\ IF "parse" \in used THEN TRUE ELSE ParseIdle
    /\ IF "record" \in used THEN TRUE ELSE RecordIdle
    /\ IF "backup" \in used THEN TRUE ELSE BackupIdle
    /\ IF "search" \in used THEN TRUE ELSE SearchIdle
    /\ IF "standalone" \in used THEN TRUE ELSE StandaloneIdle
    /\ IF "fetch" \in used THEN TRUE ELSE FetchIdle
    /\ IF "mirror" \in used THEN TRUE ELSE MirrorIdle
    /\ IF "api" \in used THEN TRUE ELSE ApiIdle
    /\ IF "merge" \in used THEN TRUE ELSE MergeIdle

InitUpdater == UpdaterInit /\ IdleExcept({"updater"})
NextUpdater == DailyUpdate \/ UpdateConsumed
SpecUpdater == InitUpdater /\ [][NextUpdater]_vars

InitValidator == ValidatorInit /\ IdleExcept({"validator"})
NextValidator == CallValidateRecords
SpecValidator == InitValidator /\ [][NextValidator]_vars

InitGate == GateInit /\ IdleExcept({"gate"})
NextGate == CallSafetyChecks
SpecGate == InitGate /\ [][NextGate]_vars

InitManager == ManagerInit /\ IdleExcept({"manager"})
NextManager == ManagerRun \/ ManagerRunConsumed
SpecManager == InitManager /\ [][NextManager]_vars

InitLimiter == LimiterInit /\ IdleExcept({"limiter"})
NextLimiter == MakeRequestWait \/ MakeRequestRecord \/ Elapse \/ LimiterReset
SpecLimiter == InitLimiter /\ [][NextLimiter]_vars

InitScheduler == SchedulerInit /\ IdleExcept({"updater", "scheduler"})
NextScheduler == RunUpdateWithRetries \/ UpdateAttempt \/ RunUpdateReturned
SpecScheduler == InitScheduler /\ [][NextScheduler]_vars

InitRequest ==
    /\ rl = NewRateLimiter(Config(long_break_after))
    /\ rl_clock = 0 /\ rl_pc = "idle" /\ rl_wait = NoWait
    /\ IdleExcept({"limiter"})
NextRequest == RequestCall \/ AttemptWait \/ AttemptSend \/ RequestDone \/ Elapse
SpecRequest == InitRequest /\ [][NextRequest]_vars

\* A process drives one of the two limiters, with any configuration.
InitDelays ==
    \/ /\ rl \in { NewRateLimiter(config) : config \in DelayConfigs }
       /\ rl_clock = 0 /\ rl_pc = "idle" /\ rl_wait = NoWait
       /\ IdleExcept({"limiter"})
    \/ SimpleInit /\ LimiterOff /\ IdleExcept({"limiter", "simple"})
NextDelays ==
    \/ MakeRequestWait \/ MakeRequestRecord \/ Elapse \/ LimiterReset
    \/ ScraperRequestWait \/ ScraperRequestRecord
SpecDelays == InitDelays /\ [][NextDelays]_vars

InitThreads == ThreadsIdle /\ IdleExcept({"threads"})
NextThreads ==
    \/ StartScheduler \/ StopScheduler \/ JoinReturns
    \/ (\E t \in Threads : LoopTest(t))
    \/ (\E t \in Threads : RunPending(t))
    \/ (\E t \in Threads : JobReturns(t))
    \/ (\E t \in Threads : Wake(t))
    \/ DailyTrigger
SpecThreads == InitThreads /\ [][NextThreads]_vars

InitDetail == DetailInit /\ IdleExcept({"detail"})
NextDetail == ExtractBatch \/ ProcessRecord \/ BatchDone \/ BatchReturned
SpecDetail == InitDetail /\ [][NextDetail]_vars

InitSync == SyncInit /\ IdleExcept({"sync"})
NextSync == SyncRun \/ SyncConsumed
SpecSync == InitSync /\ [][NextSync]_vars

InitEngine == EngineInit /\ IdleExcept({"engine"})
NextEngine == EngineExtract \/ EngineConsumed
SpecEngine == InitEngine /\ [][NextEngine]_vars

InitCount == CountInit /\ IdleExcept({"count"})
NextCount == ExtractorCount \/ ScraperCount \/ ReaderCount \/ CountConsumed
SpecCount == InitCount /\ [][NextCount]_vars

InitParse == ParseInit /\ IdleExcept({"parse"})
NextParse == ReaderFetch \/ ScraperExtract \/ ParseConsumed
SpecParse == InitParse /\ [][NextParse]_vars

InitRecord == RecordInit /\ IdleExcept({"record"})
NextRecord == ConstructRecord \/ ReconstructRecord \/ RecordDropped
SpecRecord == InitRecord /\ [][NextRecord]_vars

InitBackup == BackupInit /\ IdleExcept({"backup"})
NextBackup ==
    \/ CreateBackup
    \/ VerifyBackup
    \/ BackupReturned
    \/ ByteChanged
    \/ BackupRemoved
    \/ DigestRemoved
    \/ DigestRewritten
SpecBackup == InitBackup /\ [][NextBackup]_vars

InitSearch == SearchInit /\ IdleExcept({"search"})
NextSearch == SearchRequest \/ SearchAnswered
SpecSearch == InitSearch /\ [][NextSearch]_vars

InitStandalone == StandaloneInit /\ IdleExcept({"standalone"})
NextStandalone == StandaloneMain \/ StandaloneAgain
SpecStandalone == InitStandalone /\ [][NextStandalone]_vars

InitFetch == FetchInit /\ IdleExcept({"fetch"})
NextFetch ==
    \/ MainStarts
    \/ FetchOne
    \/ FinalSave
    \/ OpenTemp
    \/ WriteTemp
    \/ RemoveOutput
    \/ RenameTemp
    \/ SaveReturns
    \/ ProcessKilled
    \/ FetchAgain
SpecFetch == InitFetch /\ [][NextFetch]_vars

InitMirror == MirrorInit /\ IdleExcept({"mirror"})
NextMirror == Upsert \/ BulkSync
SpecMirror == InitMirror /\ [][NextMirror]_vars

InitBreaker == LimiterInit /\ IdleExcept({"limiter"})
NextBreaker == CallWaitIfNeeded \/ CallRecordRequest \/ Elapse \/ LimiterReset
SpecBreaker == InitBreaker /\ [][NextBreaker]_vars

InitResume == DetailInit /\ IdleExcept({"detail"})
NextResume == ExtractDetailedBatch \/ ProcessRecord \/ BatchDone \/ BatchReturned
SpecResume == InitResume /\ [][NextResume]_vars

InitApi == ApiInit /\ IdleExcept({"api"})
NextApi ==
    \/ \E r \in ApiRequests : AnswerBadRequest(r)
    \/ \E r \in ApiRequests : DbConnect(r)
    \/ \E r \in ApiRequests : DbQuery(r)
    \/ \E r \in ApiRequests : DbClose(r)
SpecApi == InitApi /\ [][NextApi]_vars

InitMerge == MergeInit /\ IdleExcept({"merge"})
NextMerge == MergeFirst \/ MergeSecond \/ MergeDropped
SpecMerge == InitMerge /\ [][NextMerge]_vars

(***************************************************************************)
(* Properties of the daily updater (SpecUpdater).                          *)
(***************************************************************************)
SafetyReached == up_pc = "returned" /\ up_trace.stage \in {"critical_abort", "save_raised", "completed"}

\* At least one of the critical checks (1-3) failed during the last call.
CriticalCheckFailed == SafetyReached /\ up_trace.safety.errors # <<>>

ZeroCountResult ==
    /\ up_result.success = FALSE
    /\ up_result.total_records = 0
    /\ up_result.new_records = 0
    /\ up_result.removed_records = 0
    /\ up_result.duplicates_found = 0
    /\ up_result.duplicates_removed = 0
    /\ up_result.data_integrity_score = Ratio(0, 1)
    /\ up_result.backup_created = ""

\* The number of records the load of the stored dataset yields: none when
\* the file is missing or cannot be read.
LoadedCount == IF up_env.fault = "load" THEN 0 ELSE Count(up_before.records)

\* C1 (as stated): when a critical safety check fails, rx.json is left as it
\* was and the call returns success=false, new_records=0, removed_records=0
\* and total_records = the number of records in the stored dataset.
C1_AsStated ==
    CriticalCheckFailed =>
        /\ rx_file = up_before
        /\ up_result.success = FALSE
        /\ up_result.new_records = 0
        /\ up_result.removed_records = 0
        /\ up_result.total_records = Count(up_before.records)

\* C1 (amended): when a critical safety check fails, rx.json is left as it
\* was and the call returns success=false, new_records=0, removed_records=0
\* and total_records = the number of records loaded from the stored dataset
\* (0 when the file is missing or could not be read).
C1_CriticalAbortKeepsFile ==
    CriticalCheckFailed =>
        /\ rx_file = up_before
        /\ up_result.success = FALSE
        /\ up_result.new_records = 0
        /\ up_result.removed_records = 0
        /\ up_result.total_records = LoadedCount

C1_Witness ==
    /\ CriticalCheckFailed
    /\ up_before.exists
    /\ up_env.fault = "none"
    /\ Count(up_env.fresh) = 79999
    /\ up_result.total_records = 80000
    /\ rx_file = up_before

\* C3: when no critical safety check fails, the call writes the validated,
\* deduplicated records to rx.json as 5-field basic records and returns
\* success=true with total_records = the clean count, new_records = |fresh
\* keys minus stored keys| and removed_records = |stored keys minus fresh keys|.
C3_PassingRunPersists ==
    (SafetyReached /\ up_trace.safety.errors = <<>> /\ up_env.fault = "none") =>
        /\ up_result.success = TRUE
        /\ rx_file = StoredFile(BasicFields, up_trace.clean_records)
        /\ up_result.total_records = Count(up_trace.clean_records)
        /\ up_result.new_records
             = Cardinality(RegNumbers(up_trace.clean_records) \ RegNumbers(up_before.records))
        /\ up_result.removed_records
             = Cardinality(RegNumbers(up_before.records) \ RegNumbers(up_trace.clean_records))

\* An exception escaped one of the steps into the handler of the call.
ExceptionEscaped ==
    up_pc = "returned" /\ up_trace.stage \in {"backup_raised", "extract_raised", "save_raised"}

\* An exception was raised somewhere during the call, the load included.
ExceptionRaisedAnywhere ==
    \/ ExceptionEscaped
    \/ up_pc = "returned" /\ up_env.fault = "load" /\ up_before.exists

FailureReported ==
    /\ up_result.errors # <<>>
    /\ up_result.errors[Len(up_result.errors)][1] = "Update failed"

\* C4 (as stated): any exception raised while loading, backing up,
\* extracting, validating, saving, verifying or pruning ends in a returned
\* result with success=false, zero counts, integrity score 0, empty backup
\* path and the exception message appended to errors.
C4_AsStated == ExceptionRaisedAnywhere => (ZeroCountResult /\ FailureReported)

\* C4 (amended): the call always returns an UpdateResult, and any exception
\* that escapes a step into the call's handler (backing up, extracting,
\* saving) ends in a returned result with success=false, zero counts,
\* integrity score 0, empty backup path and the message appended to errors;
\* an error of the load is absorbed by the load step, which yields no records.
C4_EscapedExceptionGivesZeroResult ==
    /\ up_pc = "returned" =>
          up_trace.stage \in {"backup_raised", "extract_raised", "critical_abort",
                              "save_raised", "completed"}
    /\ ExceptionEscaped => (ZeroCountResult /\ FailureReported)

C4_Witness ==
    /\ ExceptionEscaped
    /\ up_env.fault = "extract"
    /\ up_before.exists
    /\ up_result.errors = <<Message("Update failed", "NetworkException")>>

\* C5: duplicates, or an invalid-record rate above 1%, never block the
\* update by themselves, and each such finding is in the warnings of the
\* returned result, whether the update is written or aborted.
C5_FindingsAreWarnings ==
    SafetyReached =>
        /\ (up_trace.safety.errors = <<>>) => up_trace.stage # "critical_abort"
        /\ (up_trace.report.duplicates_found > 0)
              => Message("Found and removed duplicates", "") \in Range(up_result.warnings)
        /\ (up_trace.report.invalid_records * 100 > up_trace.report.total_input_records)
              => Message("High invalid record rate", "") \in Range(up_result.warnings)

\* C6: if the re-load after the write fails or shows a mismatch, the
\* message is appended to errors, the result still has success=true, and
\* the file written in the previous step stays as written.
C6_MismatchKeepsSuccess ==
    (SafetyReached /\ up_trace.safety.errors = <<>>
       /\ up_env.fault \in {"reload", "reload_short"}) =>
        /\ up_result.success = TRUE
        /\ up_result.errors # <<>>
        /\ rx_file = StoredFile(BasicFields, up_trace.clean_records)

(***************************************************************************)
(* Properties of validate_records (SpecValidator).                         *)
(***************************************************************************)
\* Record i passes validate() and no earlier record that passes validate()
\* has its registration number.
FirstValidOccurrence(records, i) ==
    /\ Validate(records[i]) = {}
    /\ \A j \in 1..(i - 1) :
          ~(Validate(records[j]) = {} /\ records[j].regs = records[i].regs)

FirstValidIndices(records) == { i \in 1..Len(records) : FirstValidOccurrence(records, i) }

\* The members of the index set I of `records`, in input order.
InOrder(records, I) ==
    LET n == Cardinality(I)
        pos == CHOOSE f \in [1..n -> I] : \A a, b \in 1..n : a < b => f[a] < f[b]
    IN  [k \in 1..n |-> records[pos[k]]]

\* C7: validate_records returns, in input order, exactly the records that
\* pass validate() and are the first such occurrence of their registration
\* number; the output repeats no registration number; invalid + duplicates
\* + clean = total; integrity_score = clean / total (0 for empty input).
C7_ValidateRecords ==
    v_pc = "done" =>
        LET out == v_out.clean_records
            rep == v_out.report
        IN  /\ out = InOrder(v_in, FirstValidIndices(v_in))
            /\ \A a, b \in 1..Len(out) : a # b => out[a].regs # out[b].regs
            /\ rep.total_input_records = Len(v_in)
            /\ rep.clean_records = Len(out)
            /\ rep.invalid_records + rep.duplicates_found + rep.clean_records
                  = rep.total_input_records
            /\ rep.integrity_score
                  = IF Len(v_in) = 0 THEN Ratio(0, 1) ELSE Ratio(Len(out), Len(v_in))

C7_Witness ==
    /\ v_pc = "done"
    /\ Len(v_in) = 3
    /\ Validate(v_in[1]) # {}
    /\ Validate(v_in[2]) = {}
    /\ v_in[3] = v_in[2]
    /\ v_in[1].regs = v_in[2].regs
    /\ v_out.clean_records = <<v_in[2]>>
    /\ v_out.report.duplicates_found = 1
    /\ v_out.report.invalid_records = 1

(***************************************************************************)
(* Properties of the safety gate (SpecGate).                               *)
(***************************************************************************)
GateTotal == g_in.new_count + g_in.invalid + g_in.dups

\* C2: the gate is critical exactly when the clean count is below 80,000,
\* or clean/total is below 0.95, or the prior dataset is non-empty and the
\* relative change of the count exceeds 5%; the bounds are exclusive and an
\* empty prior dataset is not checked for change.
C2_GateCriticalExactly ==
    g_pc = "done" =>
        /\ g_out.critical <=>
              \/ g_in.new_count < 80000
              \/ (IF GateTotal = 0 THEN TRUE ELSE g_in.new_count * 100 < 95 * GateTotal)
              \/ /\ g_in.existing_count # 0
                 /\ Abs(g_in.new_count - g_in.existing_count) * 100 > 5 * g_in.existing_count
        /\ g_out.passed <=> ~g_out.critical
        /\ (g_in.new_count = 80000 /\ g_in.existing_count \in {0, 80000}
               /\ g_in.invalid = 0 /\ g_in.dups = 0) => ~g_out.critical

C2_Witness ==
    /\ g_pc = "done"
    /\ g_in = [existing_count |-> 100000, new_count |-> 95000, invalid |-> 5000, dups |-> 0]
    /\ ~g_out.critical
    /\ g_out.warnings = <<Message("High invalid record rate", "")>>

(***************************************************************************)
(* Properties of the orchestration manager (SpecManager).                  *)
(***************************************************************************)
ManagerWrote == m_pc = "returned" /\ m_out.status = "updated"

\* C8: run_daily_update overwrites rx.json if and only if the fresh
\* extraction is non-empty and the stored dataset is empty or the fresh
\* count is at least 90% of the stored count; an aborted run leaves rx.json
\* unchanged; 100 stored and 89 fresh abort, 100 stored and 90 fresh proceed.
C8_OverwriteIffAboveFloor ==
    /\ m_pc = "returned" =>
          /\ ManagerWrote <=>
                /\ m_fresh # <<>>
                /\ \/ Len(m_before.data) = 0
                   \/ 10 * Len(m_fresh) >= 9 * Len(m_before.data)
          /\ ManagerWrote => (m_file.exists /\ m_file = m_out.file)
          /\ ~ManagerWrote => m_file = m_before
    /\ SafetyAbort(89, 100)
    /\ ~SafetyAbort(90, 100)

C8_Witness ==
    /\ ManagerWrote
    /\ Len(m_before.data) = 10
    /\ Len(m_fresh) = 9
    /\ m_file # m_before

\* The last record of `records` with registration number `key`.
LastOccurrence(records, key) ==
    records[CHOOSE i \in 1..Len(records) :
               /\ records[i].registration_number = key
               /\ \A j \in (i + 1)..Len(records) : records[j].registration_number # key]

\* C9: when the run proceeds, the saved dataset holds exactly one record per
\* distinct fresh registration number, namely its last fresh occurrence, in
\* ascending order of serial number (a missing serial counts as 0); and
\* new = |fresh keys minus stored keys|, removed = |stored keys minus fresh
\* keys|, modified = the number of common keys whose records differ,
\* duplicates_removed = fresh count minus distinct count.
C9_SavedDatasetAndCounts ==
    ManagerWrote =>
        LET saved  == m_file.data
            stored == m_before.data
        IN  /\ Keys(saved) = Keys(m_fresh)
            /\ Len(saved) = Cardinality(Keys(m_fresh))
            /\ \A i \in 1..Len(saved) :
                  saved[i] = LastOccurrence(m_fresh, saved[i].registration_number)
            /\ \A i, j \in 1..Len(saved) :
                  i < j => (IF saved[i].serial_number = NoSerial THEN 0
                            ELSE saved[i].serial_number)
                           <= (IF saved[j].serial_number = NoSerial THEN 0
                               ELSE saved[j].serial_number)
            /\ m_out.total_count = Len(saved)
            /\ m_out.new_count = Cardinality(Keys(m_fresh) \ Keys(stored))
            /\ m_out.removed_count = Cardinality(Keys(stored) \ Keys(m_fresh))
            /\ m_out.modified_count
                  = Cardinality({ k \in Keys(m_fresh) \cap Keys(stored) :
                                    LastOccurrence(stored, k) # LastOccurrence(m_fresh, k) })
            /\ m_out.duplicates = Len(m_fresh) - Cardinality(Keys(m_fresh))

C9_Witness ==
    /\ ManagerWrote
    /\ m_out.duplicates = 1
    /\ m_out.new_count = 1
    /\ m_out.modified_count = 1
    /\ Len(m_fresh) = 3
    /\ m_fresh[1].registration_number = m_fresh[3].registration_number
    /\ m_fresh[1] # m_fresh[3]
    /\ m_file.data = <<m_fresh[3], m_fresh[2]>>

(***************************************************************************)
(* Properties of the adaptive rate limiter (SpecLimiter).                  *)
(***************************************************************************)
WaitedWhileOpen == rl_wait.outcome # "none" /\ rl_wait.before.circuit_breaker_open

OpenedFor == rl_wait.at - rl_wait.before.circuit_breaker_open_time

\* C10: the breaker is open exactly from the recording of the 5th
\* consecutive failure; a wait_if_needed call made while it is open and less
\* than 300 seconds after it opened raises without sleeping, without counting
\* a request and without a request being sent; a call made at 300 seconds or
\* later closes the breaker, resets consecutive_failures to 0 and
\* current_delay to min_delay, and then sleeps and counts like any other call.
C10_BreakerOpensAndTimesOut ==
    /\ rl.circuit_breaker_open
          <=> rl.stats.consecutive_failures >= max_consecutive_failures
    /\ rl.circuit_breaker_open
          => /\ rl.stats.consecutive_failures = max_consecutive_failures
             /\ rl.circuit_breaker_open_time # NoTime
    /\ (WaitedWhileOpen /\ OpenedFor < circuit_breaker_timeout)
          => /\ rl_wait.outcome = "refused"
             /\ rl_wait.slept = Whole(0)
             /\ rl = rl_wait.before
             /\ rl_pc = "idle"
    /\ (WaitedWhileOpen /\ OpenedFor >= circuit_breaker_timeout)
          => /\ rl_wait.outcome = "admitted"
             /\ ~Less(rl_wait.slept, Times(Frac(4, 5), rl_wait.before.min_delay))
             /\ rl_pc = "admitted"
                  => /\ ~rl.circuit_breaker_open
                     /\ rl.circuit_breaker_open_time = NoTime
                     /\ rl.stats.consecutive_failures = 0
                     /\ rl.current_delay = rl.min_delay
                     /\ rl.stats.total_requests = rl_wait.before.stats.total_requests
                     /\ rl.requests_since_break
                          = IF rl_wait.before.requests_since_break + 1 >= rl.long_break_after
                            THEN 0
                            ELSE rl_wait.before.requests_since_break + 1

C10_Witness ==
    /\ WaitedWhileOpen
    /\ OpenedFor = circuit_breaker_timeout
    /\ rl_wait.outcome = "admitted"
    /\ rl_pc = "admitted"
    /\ ~rl.circuit_breaker_open

(***************************************************************************)
(* Properties of both limiters' delay (SpecDelays).                        *)
(***************************************************************************)
Ordered(l) == ~Less(l.max_delay, l.min_delay)

DelayInRange(l) ==
    ~Less(l.current_delay, l.min_delay) /\ ~Less(l.max_delay, l.current_delay)

AdaptiveRecordStep ==
    LET success == rl'.stats.successful_requests = rl.stats.successful_requests + 1
        blocked == rl'.stats.blocked_requests = rl.stats.blocked_requests + 1
        shrunk == FloatMax(rl.min_delay, Times(rl.current_delay, Frac(9, 10)))
        grown == FloatMin(rl.max_delay, Times(rl.current_delay, Frac(3, 2)))
        doubled == FloatMin(rl.max_delay, Times(grown, Whole(2)))
    IN  (Ordered(rl) /\ rl'.stats.total_requests = rl.stats.total_requests + 1) =>
            IF success
            THEN rl'.current_delay = shrunk /\ ~Less(rl.current_delay, rl'.current_delay)
            ELSE /\ rl'.current_delay = IF blocked THEN doubled ELSE grown
                 /\ ~Less(rl'.current_delay, rl.current_delay)

SimpleRecordStep ==
    LET success == sl'.consecutive_failures = 0
        shrunk == FloatMax(sl.min_delay, Times(sl.current_delay, Frac(9, 10)))
        grown == FloatMin(sl.max_delay, Times(sl.current_delay, Frac(3, 2)))
    IN  (Ordered(sl) /\ sl_recorded' = sl_recorded + 1) =>
            IF success
            THEN sl'.current_delay = shrunk /\ ~Less(sl.current_delay, sl'.current_delay)
            ELSE sl'.current_delay = grown /\ ~Less(sl'.current_delay, sl.current_delay)

\* C11: with min_delay <= max_delay, current_delay of either limiter is
\* always within [min_delay, max_delay]; recording a success sets it to
\* max(min_delay, 0.9 x previous) and recording a failure to
\* min(max_delay, 1.5 x previous) (then doubled under the same cap when the
\* status is a blocking one), so a success never raises it and a failure
\* never lowers it.
C11_DelayStaysInRange ==
    /\ [](Ordered(rl) => DelayInRange(rl))
    /\ [](Ordered(sl) => DelayInRange(sl))
    /\ [][AdaptiveRecordStep /\ SimpleRecordStep]_vars

C11_Witness ==
    /\ Ordered(rl)
    /\ rl.stats.successful_requests > 0
    /\ rl.stats.blocked_requests > 0
    /\ Less(rl.min_delay, rl.current_delay)
    /\ Less(rl.current_delay, rl.max_delay)

(***************************************************************************)
(* Long breaks of the adaptive rate limiter (SpecLimiter).                 *)
(***************************************************************************)
\* wait_if_needed calls admitted since construction or the last reset
AdmittedCalls == rl.stats.total_requests + (IF rl_pc = "admitted" THEN 1 ELSE 0)

\* The last wait slept at least long_break_duration (an ordinary delay is
\* at most 1.2 x 10 seconds).
LongBreakTaken ==
    rl_wait.outcome = "admitted"
      /\ ~Less(rl_wait.slept, Whole(rl_wait.before.long_break_duration))

\* C12: a long break is taken on exactly every long_break_after-th admitted
\* wait_if_needed call since the previous break, construction or reset;
\* right after it requests_since_break is 0 and current_delay is min_delay;
\* requests_since_break < long_break_after whenever wait_if_needed has
\* returned; a call refused by the open breaker leaves the counter alone.
C12_LongBreakEveryNth ==
    /\ rl.requests_since_break < rl.long_break_after
    /\ rl.requests_since_break = AdmittedCalls % rl.long_break_after
    /\ rl_wait.outcome = "admitted"
          => /\ LongBreakTaken
                   <=> rl_wait.before.requests_since_break + 1 = rl.long_break_after
             /\ (LongBreakTaken /\ rl_pc = "admitted")
                   => /\ rl.requests_since_break = 0
                      /\ rl.current_delay = rl.min_delay
                      /\ AdmittedCalls % rl.long_break_after = 0
             /\ (~LongBreakTaken /\ rl_pc = "admitted")
                   => rl.requests_since_break = rl_wait.before.requests_since_break + 1
    /\ rl_wait.outcome = "refused"
          => rl.requests_since_break = rl_wait.before.requests_since_break

C12_Witness ==
    /\ LongBreakTaken
    /\ rl_pc = "admitted"
    /\ AdmittedCalls = 2 * rl.long_break_after
    /\ rl_wait.before.requests_since_break = rl.long_break_after - 1
    /\ rl.requests_since_break = 0

(***************************************************************************)
(* Properties of one _make_request call (SpecRequest).                     *)
(***************************************************************************)
\* Statuses and library exceptions after which the call may try again:
\* timeouts, connection errors, and every status of 400 or more except the
\* validation and authentication ones.
NetworkLevelFailure(outcome) ==
    \/ outcome.error \in {"Timeout", "ConnectionError"}
    \/ outcome.error = "none" /\ outcome.status_code \in {429, 500}

\* C13: one _make_request call makes at most 3 HTTP attempts; each attempt
\* is preceded by one admitted wait_if_needed and followed by exactly one
\* record_request; every attempt but the last of a call ended in a
\* network-level failure, so nothing follows a 400, 401 or 403, and nothing
\* follows a refusal by the open breaker.
C13_BoundedRetry ==
    /\ Len(rq_outcomes) <= 3
    /\ rq_records = Len(rq_outcomes)
    /\ rq_waits = Len(rq_outcomes) + (IF rq_pc = "sending" THEN 1 ELSE 0)
    /\ \A i \in 1..Len(rq_outcomes) :
          (i < Len(rq_outcomes) \/ rq_pc \in {"waiting", "sending"})
              => NetworkLevelFailure(rq_outcomes[i])
    /\ rq_exit = "Exception" => /\ rq_pc = "done"
                                /\ rl.circuit_breaker_open
                                /\ rl_wait.outcome = "refused"
    /\ (rq_pc = "done" /\ rq_outcomes # <<>>
          /\ ~NetworkLevelFailure(rq_outcomes[Len(rq_outcomes)]))
          => rq_exit \in {"returned", "TypeError"}

C13_Witness ==
    /\ rq_pc = "done"
    /\ rq_exit = "Exception"
    /\ Len(rq_outcomes) = 2
    /\ rl.stats.total_requests = 5

(***************************************************************************)
(* Properties of the scheduler's retry loop (SpecScheduler).               *)
(***************************************************************************)
\* C14: at most 3 attempts per call, none after an attempt whose result has
\* success=true, a 30-minute sleep after every failed attempt but the last,
\* an UpdateResult returned in every case, and the status snapshot written
\* after every attempt, also after one that raised.
C14_RetriesAndStatus ==
    /\ Len(sc_log) <= 3
    /\ \A i \in 1..Len(sc_log) :
          /\ sc_log[i].outcome = "success" => i = Len(sc_log) /\ sc_pc # "running"
          /\ sc_log[i].slept = (IF sc_log[i].outcome # "success" /\ i < 3 THEN 30 ELSE 0)
          /\ sc_log[i].saved
    /\ sc_pc = "returned"
          => /\ sc_return # NoResult
             /\ sc_log # <<>>
             /\ (sc_log[Len(sc_log)].outcome = "success" \/ Len(sc_log) = 3)
             /\ sc_return.success <=> sc_log[Len(sc_log)].outcome = "success"

(***************************************************************************)
(* Properties of start_scheduler / stop_scheduler (SpecThreads).           *)
(***************************************************************************)
PollingThreads == { t \in Threads : IsAlive(t) }

OneRunPerTrigger ==
    \A r, q \in th_runs : r.day = q.day => r = q

RunStarted == th_runs' # th_runs

\* C15: at most one thread is in the polling loop at any time and a daily
\* trigger starts at most one update run; start while running and stop while
\* stopped leave flag, jobs and threads as they are; no update run is started
\* while the scheduler is stopped.
C15_OnePollingThread ==
    /\ [](Cardinality(PollingThreads) <= 1)
    /\ []OneRunPerTrigger
    /\ [][StartScheduler /\ th_is_running
            => UNCHANGED <<th_is_running, th_jobs, th_pc, th_scheduler_thread>>]_vars
    /\ [][StopScheduler /\ ~th_is_running
            => UNCHANGED <<th_is_running, th_jobs, th_pc, th_scheduler_thread>>]_vars
    /\ [][RunStarted => th_is_running]_vars

(***************************************************************************)
(* Properties of DetailedExtractor.extract_batch (SpecDetail).             *)
(***************************************************************************)
BatchRegs == { BatchRecords(dx_basic, dx_args)[k] : k \in 1..Len(BatchRecords(dx_basic, dx_args)) }

\* No step fetches or touches the file of a number whose file is there.
ExistingFilesLeftAlone ==
    \A r \in DetailRegs :
       dx_files[r].exists /\ dx_pc = "loop"
          => dx_files'[r] = dx_files[r] /\ (r \in dx_fetched' => r \in dx_fetched)

\* C16: extract_batch neither fetches nor rewrites the detail of a number
\* whose file exists; the returned counts satisfy processed = extracted +
\* skipped + failed; a run over a range whose files all exist skips every
\* record, extracts none and leaves the files as they were.
C16_ExistingDetailsSkipped ==
    /\ [][ExistingFilesLeftAlone]_vars
    /\ [](dx_pc = "returned"
            => /\ dx_results.processed = Len(BatchRecords(dx_basic, dx_args))
               /\ dx_results.processed
                    = dx_results.extracted + dx_results.skipped + dx_results.failed)
    /\ [](dx_pc = "returned" /\ (\A r \in BatchRegs : dx_before[r].exists)
            => /\ dx_results.skipped = dx_results.processed
               /\ dx_results.extracted = 0
               /\ dx_results.failed = 0
               /\ dx_fetched = {}
               /\ dx_files = dx_before)

\* A second run over a range that the first run filled: two records, both
\* skipped.
C16_Witness ==
    /\ dx_pc = "returned"
    /\ dx_calls = 1
    /\ Cardinality(BatchRegs) = 2
    /\ \A r \in BatchRegs : dx_before[r].exists /\ dx_before[r].data = "page"
    /\ dx_results.skipped = dx_results.processed
    /\ dx_results.processed >= 2

(***************************************************************************)
(* Properties of TGPCEngine.sync_with_website (SpecSync).                  *)
(***************************************************************************)
\* A call that loaded the stored set and extracted the fresh one.
SyncCompared == sy_pc = "returned" /\ sy_env.fault = "none"

SyncDiffers == RegNumbers(sy_before.records) # RegNumbers(sy_env.fresh)

SyncUpdated ==
    /\ ~sy_out.raised
    /\ sy_file = StoredFile(AllFields, sy_env.fresh)
    /\ sy_out.result.status = "updated"
    /\ sy_out.result.new_records
         = Cardinality(RegNumbers(sy_env.fresh) \ RegNumbers(sy_before.records))
    /\ sy_out.result.removed_records
         = Cardinality(RegNumbers(sy_before.records) \ RegNumbers(sy_env.fresh))

SyncUnchanged ==
    /\ ~sy_out.raised
    /\ sy_file = sy_before
    /\ sy_out.result.status = "no_changes"
    /\ sy_out.result.new_records = 0
    /\ sy_out.result.removed_records = 0

\* C17 as stated: whenever the stored and the fresh set of registration
\* numbers differ the file is overwritten with the fresh set and the result
\* is "updated" with the two counts; when they are equal the file is not
\* written and the result is "no_changes" with zero counts.
C17_SyncOverwritesWhenDifferent ==
    SyncCompared => IF SyncDiffers THEN SyncUpdated ELSE SyncUnchanged

\* C17 amended: the overwrite happens when the sets differ and the fresh set
\* is not empty; with an empty fresh set and a non-empty stored one the save
\* raises ValueError, nothing is returned and the file stays as it was.
C17_SyncOverwritesNonEmpty ==
    SyncCompared
      => IF ~SyncDiffers THEN SyncUnchanged
         ELSE IF sy_env.fresh # <<>> THEN SyncUpdated
         ELSE /\ sy_out.raised
              /\ sy_out.error = "No records to save"
              /\ sy_file = sy_before

\* A sync that found one number new and one removed.
C17_Witness ==
    /\ SyncCompared
    /\ sy_out.result.status = "updated"
    /\ sy_out.result.new_records = 1
    /\ sy_out.result.removed_records = 1
    /\ sy_before.exists
    /\ sy_file # sy_before

(***************************************************************************)
(* Properties of TGPCEngine.extract_basic_records (SpecEngine).            *)
(***************************************************************************)
\* Field by field, the records of a list without regard to their Python type.
BasicDicts(records) == [i \in 1..Len(records) |-> ToBasicDict(records[i])]

\* C18: the list returned holds, in listing order, the normalized record of
\* every row that the extractor parsed into a record, and nothing else is
\* dropped.
C18_OneRecordPerParsedRow ==
    en_pc = "returned" /\ ~en_out.raised
       => BasicDicts(en_out.value) = BasicDicts(ParseBasicTable(en_table))

(***************************************************************************)
(* Properties of the total-count extraction (SpecCount).                   *)
(***************************************************************************)
\* The first-column texts of the data rows, and those the called
\* implementation reads as a number.
FirstColumns == [i \in 1..Len(DataRows(ct_table)) |-> DataRows(ct_table)[i][1]]
IsNumericText(text) == IF ct_out.by = "scraper" THEN IntParses(text) ELSE StrIsDigit(text)
NumericValues == { IntOf(t) : t \in { c \in Range(FirstColumns) : IsNumericText(c) } }

\* A call that returned a count of a table with data rows.
CountReturned == ct_pc = "returned" /\ ~ct_out.raised /\ ct_out.error = "" /\ FirstColumns # <<>>

\* C19 as stated: the number of distinct values if all first-column values
\* are numeric, the number of data rows otherwise.
C19_DistinctIfAllNumeric ==
    CountReturned
      => ct_out.value = IF \A c \in Range(FirstColumns) : IsNumericText(c)
                        THEN Cardinality(NumericValues)
                        ELSE Len(FirstColumns)

\* C19 amended: the number of distinct numbers among the first-column values
\* if at least one of them is numeric, the others being ignored; the number
\* of data rows if none is.
C19_DistinctIfAnyNumeric ==
    CountReturned
      => ct_out.value = IF \E c \in Range(FirstColumns) : IsNumericText(c)
                        THEN Cardinality(NumericValues)
                        ELSE Len(FirstColumns)

\* First-column values 1, 1, 2, 3 counted as 3 by the extractor.
C19_Witness ==
    /\ CountReturned
    /\ ct_out.by = "extractor"
    /\ FirstColumns = <<<<"1">>, <<"1">>, <<"2">>, <<"3">>>>
    /\ ct_out.value = 3

(***************************************************************************)
(* Properties of the plain parsing of the listing (SpecParse).             *)
(***************************************************************************)
\* The rows after the header that have at least five cells, in row order.
WideRows == SelectSeq(IF pb_table = <<>> THEN <<>> ELSE Tail(pb_table), LAMBDA r : Len(r) >= 5)

MatchesExactly(text) == text = StrUpper(text) /\ MatchesRegistrationPattern(text)

\* C21: a text matching the pattern case-insensitively gives its upper case,
\* a pure numeral gives TS and the numeral padded to 6 digits, every other
\* text raises; so the number of every constructed record matches the
\* pattern, and constructing again from it gives the same number.
C21_ConstructedNumberMatches ==
    /\ pr_pc \in {"constructed", "again"}
         => LET text == StrStrip(pr_input)
            IN /\ ~pr_out.raised => MatchesExactly(pr_out.value)
               /\ MatchesRegistrationPattern(text) => pr_out = Returned(StrUpper(text))
               /\ StrIsDigit(text) => pr_out = Returned(<<"T", "S">> \o ZFill(text, 6))
               /\ ~MatchesRegistrationPattern(text) /\ ~StrIsDigit(text) => pr_out.raised
    /\ pr_pc = "again" => pr_again = pr_out

(***************************************************************************)
(* Properties of the secure backup manager (SpecBackup).                   *)
(***************************************************************************)
\* The backup that verify_backup was asked about, as create_backup left it.
VerifiedOriginal == bk_made[bk_arg]

\* C22: verify_backup answers true for a backup made by create_backup whose
\* backup file and digest file are as create_backup left them; it answers
\* false when the digest file is missing, and when the backup file exists
\* with a changed byte while the digest file is as create_backup left it;
\* and a verify_backup call changes neither the backup files nor the digest
\* files.
C22_VerifyDetectsChange ==
    /\ [](bk_pc = "verified" =>
            /\ (/\ VerifiedOriginal.made
                /\ bk_files[bk_arg] = VerifiedOriginal.file
                /\ bk_digests[bk_arg] = VerifiedOriginal.digest) => bk_out
            /\ ~bk_digests[bk_arg].exists => ~bk_out
            /\ (/\ VerifiedOriginal.made
                /\ bk_files[bk_arg].exists
                /\ bk_files[bk_arg] # VerifiedOriginal.file
                /\ bk_digests[bk_arg] = VerifiedOriginal.digest) => ~bk_out)
    /\ [][bk_pc' = "verified" =>
            /\ bk_files' = bk_files
            /\ bk_digests' = bk_digests]_vars

\* A backup with a changed byte and an untouched digest file has been
\* verified, while another backup is as create_backup left it.
C22_Witness ==
    /\ bk_pc = "verified"
    /\ bk_made[bk_arg].made
    /\ bk_digests[bk_arg] = bk_made[bk_arg].digest
    /\ bk_files[bk_arg].exists
    /\ bk_files[bk_arg] # bk_made[bk_arg].file
    /\ \E other \in BackupStamps :
         /\ other # bk_arg
         /\ bk_made[other].made
         /\ bk_files[other] = bk_made[other].file
         /\ bk_digests[other] = bk_made[other].digest
    /\ ~bk_out

(***************************************************************************)
(* Properties of the search endpoint (SpecSearch).                         *)
(***************************************************************************)
\* text contains q, letters compared without regard to case
ContainsText(text, q) ==
    \E i \in 1..(Len(text) - Len(q) + 1) :
        StrUpper(SubSeq(text, i, i + Len(q) - 1)) = StrUpper(q)

\* The limit a request asks for: its limit parameter, 100 when not given.
AskedLimit ==
    IF sr_limit = NoParam THEN default_limit
    ELSE IF IntOfParam(sr_limit).raised THEN default_limit
    ELSE IntOfParam(sr_limit).value

\* The rows the search is to return.
RowsContaining ==
    LET rows == OrderBySerialDesc({ r \in sr_mirror :
                    \/ ContainsText(r.name, sr_q)
                    \/ ContainsText(r.registration_number, sr_q) })
    IN  IF AskedLimit <= 0 THEN <<>>
        ELSE IF AskedLimit >= Len(rows) THEN rows
        ELSE SubSeq(rows, 1, AskedLimit)

\* C23: a request whose q is absent or shorter than 2 characters is answered
\* 400 and opens no connection; every other request is answered with exactly
\* the rows whose name or registration number contains q, by descending
\* serial number, cut to the limit (100 by default), and with count equal to
\* the number of rows returned.
C23_SearchAnswer ==
    sr_pc = "answered" =>
        IF sr_q = NoParam \/ Len(sr_q) < 2
        THEN sr_out.status = 400 /\ sr_out.opened = 0
        ELSE /\ sr_out.status = 200
             /\ sr_out.results = RowsContaining
             /\ sr_out.count = Len(sr_out.results)

(***************************************************************************)
(* Properties of the standalone updater (SpecStandalone).  In an exited    *)
(* state su_out.git is the repository as the run found it and su_git the   *)
(* repository as the run left it.                                          *)
(***************************************************************************)
\* A missing repository root, a failed update, a failed stage and a failed
\* commit end the run with a non-zero exit status.
FatalFailuresExitNonZero ==
    (\/ ~su_out.git.root
     \/ su_out.update \in {"failed", "exception"}
     \/ su_out.add = "failed"
     \/ su_out.commit = "failed") => su_out.exit # 0

\* A commit is attempted only when the dataset file, as the update left it,
\* differs from the last committed one.
CommitOnlyWhenDifferent ==
    su_out.commit # NotRun => su_git.work # su_out.git.head

\* C24 as stated: the failures named fatal give a non-zero exit status, a
\* run whose update succeeded and whose stage and commit did not fail exits
\* with status 0 whatever pull and push did, and a commit is attempted only
\* when the dataset file differs from the last committed state.
C24_PushFailureExitsZero ==
    su_pc = "exited" =>
        /\ FatalFailuresExitNonZero
        /\ CommitOnlyWhenDifferent
        /\ (/\ su_out.git.root
            /\ su_out.update = "success"
            /\ su_out.add # "failed"
            /\ su_out.commit # "failed") => su_out.exit = 0

(***************************************************************************)
(* Properties of the bulk detail fetcher (SpecFetch).                      *)
(***************************************************************************)
OutputIsSnapshot == fd_output.exists /\ fd_output.complete

\* C25: once the output path holds a complete snapshot, it holds a complete
\* snapshot after every step of the fetcher, interruptions included: the
\* snapshot it held or the one being saved, never no file or a partial one.
C25_OutputAlwaysSnapshot ==
    [][OutputIsSnapshot =>
          /\ OutputIsSnapshot'
          /\ fd_output' \in {fd_output, Snapshot(fd_results)}]_vars

(***************************************************************************)
(* Properties of the embedded mirror (SpecMirror).  db_call is the last    *)
(* call and the rows it found.                                             *)
(***************************************************************************)
DistinctRegistrations(records) ==
    \A i, j \in 1..Len(records) :
        records[i].registration_number = records[j].registration_number
            => i = j

\* No two rows have the same registration number.
RegistrationIsKey ==
    \A r1, r2 \in db_rows :
        r1.registration_number = r2.registration_number => r1 = r2

\* C26: no two rows of the mirror have the same registration number; an
\* upsert leaves the row of every other registration number as it was; and
\* after a bulk sync of a dataset with distinct registration numbers the
\* mirror holds exactly one row for each record of the dataset.
C26_RegistrationNumberIsKey ==
    /\ RegistrationIsKey
    /\ db_call.kind = "upsert" =>
          \A r \in db_call.before :
              r.registration_number # db_call.record.registration_number
                  => r \in db_rows
    /\ (db_call.kind = "sync" /\ DistinctRegistrations(db_call.records)) =>
          \A i \in 1..Len(db_call.records) :
              Cardinality({ r \in db_rows : r.registration_number =
                  db_call.records[i].registration_number }) = 1

(***************************************************************************)
(* Properties of the adaptive limiter used directly (SpecBreaker).         *)
(***************************************************************************)
\* The step records a failure while the breaker is open.
FailureWhileOpen ==
    /\ rl.circuit_breaker_open
    /\ rl'.stats.consecutive_failures = rl.stats.consecutive_failures + 1

\* C27: between any two calls of wait_if_needed, record_request and reset
\* the breaker is open exactly when consecutive_failures is at least 5 and
\* circuit_breaker_open_time is set exactly when the breaker is open; a
\* failure recorded while the breaker is open sets the opening time to the
\* time of that failure; and an open breaker refuses wait_if_needed until
\* 300 seconds have passed since its opening time.
C27_BreakerOpenIffFiveFailures ==
    /\ [](/\ rl.circuit_breaker_open
                <=> rl.stats.consecutive_failures >= max_consecutive_failures
          /\ rl.circuit_breaker_open
                <=> rl.circuit_breaker_open_time # NoTime
          /\ rl.circuit_breaker_open =>
                \A jitter \in Jitters :
                    WaitIfNeeded(rl, rl_clock, jitter).raised
                        <=> rl_clock - rl.circuit_breaker_open_time
                                < circuit_breaker_timeout)
    /\ [][FailureWhileOpen =>
            /\ rl'.circuit_breaker_open
            /\ rl'.circuit_breaker_open_time = rl_clock]_vars

\* A sixth failure in a row has been recorded some time after the breaker
\* opened (the clock reads 0 when a breaker opens), and the cooldown runs
\* from it.
C27_Witness ==
    /\ rl.circuit_breaker_open
    /\ rl.stats.consecutive_failures > max_consecutive_failures
    /\ rl.circuit_breaker_open_time > 0
    /\ rl_clock - rl.circuit_breaker_open_time < circuit_breaker_timeout

(***************************************************************************)
(* Properties of auto-resumed detail extraction (SpecResume).              *)
(***************************************************************************)
\* C28: every batch started at get_next_batch_index() over a non-empty
\* range leaves the saved last_processed_index at the last index of that
\* range, so that the next batch starts behind it and repeated batches reach
\* the end of the dataset.
C28_ResumeReachesRangeEnd ==
    dx_pc = "returned" =>
        /\ dx_status_file.exists
        /\ dx_status_file.status.last_processed_index = dx_results.end_index
        /\ GetNextBatchIndex(dx_status_file) > dx_args.start_index

(***************************************************************************)
(* Properties of the HTTP API under concurrent requests (SpecApi).         *)
(***************************************************************************)
AllAnswered == \A r \in ApiRequests : ap_pc[r] \in {"done", "failed"}

\* C29: a request runs its query on the connection it opened and on no
\* other, closes no connection but its own, and once every request is
\* answered each connection that was opened has been closed, by exactly one
\* close.
C29_OwnConnectionOnly ==
    /\ \A use \in ap_ran \cup ap_closed : use[2] = use[1]
    /\ \A r \in ApiRequests :
          ap_pc[r] \in {"queried", "done"} /\ ap_kind[r] # "short_search"
              => <<r, r>> \in ap_ran
    /\ AllAnswered =>
          \A c \in ApiRequests :
              ap_open[c] # "none" =>
                  /\ ap_open[c] = "closed"
                  /\ Cardinality({ use \in ap_closed : use[2] = c }) = 1

(***************************************************************************)
(* Properties of rxsync.merge_records (SpecMerge).                         *)
(***************************************************************************)
RegsOf(records) == { records[i].registration_number : i \in 1..Len(records) }

\* C30: the merged list holds every registration number of the stored
\* list, and merging the same fetched list into the merged list returns the
\* merged list again with no new and no changed records.
C30_MergeIdempotent ==
    /\ mg_pc \in {"merged", "again"}
          => RegsOf(mg_existing) \subseteq RegsOf(mg_first.updated)
    /\ mg_pc = "again" =>
          /\ mg_second.updated = mg_first.updated
          /\ mg_second.new_records = <<>>
          /\ mg_second.changed_records = <<>>

====
